---- MODULE Spec2Model ----
(***************************************************************************)
(* A model of JXG.Group (src/src/base/group.js): membership, role sets,    *)
(* the coordinate cache and the update cycle of a group of points.         *)
(*                                                                         *)
(* Coordinates are fixed-point numbers: one model unit is Mat.eps, and a   *)
(* floating-point result is the exact real result rounded to the unit.     *)
(* A point is named by its id (1..NumPoints); an object keyed by id        *)
(* (this.objects) is the sequence of its keys in insertion order, which is *)
(* the order in which JavaScript's for-in visits them.                     *)
(***************************************************************************)
EXTENDS Integers, Sequences, FiniteSets, TLC

\* ------------------------------------------------------------------ bounds
NumPoints == 3
MaxMoves == 2
MaxApi == 1
MaxDepth == 2

\* Mat.eps in model units
Eps == 1
\* grid width used by the board's snapToGrid
SnapUnit == 2

Points == 1..NumPoints
\* the id '' that _update_find_drag_type returns when nothing changed
NoId == 0

\* --------------------------------------------------------------- sequences
InSeq(s, x) == \E i \in 1..Len(s) : s[i] = x

Range(s) == {s[i] : i \in 1..Len(s)}

\* delete obj[key] on an object keyed by id
DeleteKey(s, k) == SelectSeq(s, LAMBDA e : e # k)

\* obj[key] = value on an object keyed by id: a new key is appended, an
\* existing key keeps its place
SetKey(s, k) == IF InSeq(s, k) THEN s ELSE Append(s, k)

\* Array.prototype.indexOf, 1-based; 0 when absent
IndexOf(s, x) == IF InSeq(s, x) THEN CHOOSE i \in 1..Len(s) : s[i] = x /\ \A j \in 1..(i-1) : s[j] # x ELSE 0

\* Array.prototype.splice(idx, 1)
Splice1(s, i) == [j \in 1..(Len(s)-1) |-> IF j < i THEN s[j] ELSE s[j+1]]

\* ------------------------------------------------------------- arithmetic
Abs(n) == IF n < 0 THEN -n ELSE n

RECURSIVE ISqrtFrom(_, _)
ISqrtFrom(m, k) == IF (k+1)*(k+1) > m THEN k ELSE ISqrtFrom(m, k+1)

\* floor of the square root
ISqrt(m) == ISqrtFrom(m, 0)

\* num * sqrt(a/b) rounded to the unit (half away from zero); b > 0
RoundMulSqrt(num, a, b) ==
    LET n == Abs(num)
        r == (ISqrt((4*n*n*a) \div b) + 1) \div 2
    IN  IF num < 0 THEN -r ELSE r

\* s / n rounded to the unit; n > 0
RoundDiv(s, n) == (2*s + n) \div (2*n)

\* squared Euclidean distance, Geometry.distance and Coords.distance
DistSq(a, b) == (a[1]-b[1])*(a[1]-b[1]) + (a[2]-b[2])*(a[2]-b[2])

\* ------------------------------------------------------------ value kinds
\* what a center specification can be: a point, the string 'centroid', an
\* array of length two, a function returning such an array, null, or some
\* other value (a number, another string)
CenterNull == [kind |-> "null"]
CenterCentroid == [kind |-> "centroid"]
CenterPoint(p) == [kind |-> "point", id |-> p]
CenterArray(v) == [kind |-> "array", v |-> v]
CenterFunction(v) == [kind |-> "function", v |-> v]
CenterOther == [kind |-> "other"]

\* Type.exists
Exists(c) == c.kind # "null"

\* the element that stands for a string pushed into an array of points
StrElem == -1

\* f[k] = v on a map keyed by id
SetEntry(f, k, v) == [x \in (DOMAIN f) \cup {k} |-> IF x = k THEN v ELSE f[x]]

EmptyMap == [x \in {} |-> 0]

\* ------------------------------------------------------------ construction
\* the fields the constructor sets before it adds the points; needsUpdate is
\* not assigned there and reads as false
NewGroup ==
    [objects |-> <<>>, coords |-> EmptyMap, needsUpdate |-> FALSE,
     rotationCenter |-> CenterCentroid, scaleCenter |-> CenterNull,
     rotationPoints |-> <<>>, translationPoints |-> <<>>, scalePoints |-> <<>>,
     scaleDirections |-> EmptyMap]

\* ------------------------------------------------------- coordinate cache
\* the entry written for every id but the empty one, member or not
_updateCoordsCache_AnyId(g, pos, el) ==
    IF el # NoId
    THEN [g EXCEPT !.coords = SetEntry(@, el, pos[el])]
    ELSE g

_updateCoordsCache(g, pos, el) ==
    IF el # NoId /\ InSeq(g.objects, el)
    THEN [g EXCEPT !.coords = SetEntry(@, el, pos[el])]
    ELSE g

\* the cache left as it was when the cycle began
RefreshAll_None(g, pos, els) == g

RECURSIVE RefreshAll(_, _, _)
\* the closing loop of update(): _updateCoordsCache for every key of objects
RefreshAll(g, pos, els) ==
    IF els = <<>> THEN g
    ELSE RefreshAll(_updateCoordsCache(g, pos, Head(els)), pos, Tail(els))

\* --------------------------------------------------------------- membership
\* the whole cache refreshed when a point is added
addPoint_RefreshAll(g, pos, p) ==
    LET g1 == [g EXCEPT !.objects = SetKey(@, p)]
        g2 == RefreshAll(g1, pos, g1.objects)
    IN  [g2 EXCEPT !.translationPoints = Append(@, p)]

addPoint(g, pos, p) ==
    LET g1 == [g EXCEPT !.objects = SetKey(@, p)]
        g2 == _updateCoordsCache(g1, pos, p)
    IN  [g2 EXCEPT !.translationPoints = Append(@, p)]

RECURSIVE addPoints(_, _, _)
addPoints(g, pos, objects) ==
    IF objects = <<>> THEN g
    ELSE addPoints(addPoint(g, pos, Head(objects)), pos, Tail(objects))

\* only the first member of the other group added
addGroup_FirstOnly(g, pos, group) ==
    IF group = <<>> THEN g ELSE addPoint(g, pos, Head(group))

\* group is the objects of the other group, in its iteration order
addGroup(g, pos, group) == addPoints(g, pos, group)

\* the point purged from the role arrays as well
removePoint_PurgesRoles(g, p) ==
    [g EXCEPT !.objects = DeleteKey(@, p),
              !.rotationPoints = SelectSeq(@, LAMBDA e : e # p),
              !.translationPoints = SelectSeq(@, LAMBDA e : e # p),
              !.scalePoints = SelectSeq(@, LAMBDA e : e # p)]

removePoint(g, p) == [g EXCEPT !.objects = DeleteKey(@, p)]

\* the groups lists released and the members kept
ungroup_KeepsMembers(g) == g

ungroup(g) == [g EXCEPT !.objects = <<>>]

\* the constructor with every listed point added, fixed or not
Group_FixedAdded(objects, fixed, pos) == addPoints(NewGroup, pos, objects)

\* the constructor: every listed point that does not have the attribute fixed
\* is added; fixed is the set of the points that have it
Group(objects, fixed, pos) ==
    addPoints(NewGroup, pos, SelectSeq(objects, LAMBDA obj : obj \notin fixed))

\* ------------------------------------------------- the points' groups lists
\* this.id, as point.groups holds it
GroupId == 1

\* the id of the other group
OtherId == 2

\* the slot `delete array[i]` leaves behind
Hole == 0

RECURSIVE UniqueArray(_)
\* Type.uniqueArray: the array without its empty slots and with one
\* occurrence of every value
UniqueArray(arr) ==
    IF arr = <<>> THEN <<>>
    ELSE IF Head(arr) = Hole \/ InSeq(Tail(arr), Head(arr))
         THEN UniqueArray(Tail(arr))
         ELSE <<Head(arr)>> \o UniqueArray(Tail(arr))

\* lines 455-456 of addPoint: object.groups after the push and uniqueArray
RegisterPoint(groups, p) == [groups EXCEPT ![p] = UniqueArray(Append(@, GroupId))]

RECURSIVE RegisterPoints(_, _)
\* addPoint called for every element of objects
RegisterPoints(groups, objects) ==
    IF objects = <<>> THEN groups
    ELSE RegisterPoints(RegisterPoint(groups, Head(objects)), Tail(objects))

\* lines 145-155 of ungroup: the first slot holding this.id deleted from the
\* groups array of every member
ReleasePoints(groups, objects) ==
    [p \in DOMAIN groups |->
        IF InSeq(objects, p) /\ IndexOf(groups[p], GroupId) > 0
        THEN [groups[p] EXCEPT ![IndexOf(groups[p], GroupId)] = Hole]
        ELSE groups[p]]

\* ------------------------------------------------ the points' descendants
\* the element that depends on point p, if there is one: the points with an
\* odd id and the point 2 have one
DependentsOf(p) == IF p % 2 = 1 \/ p = 2 THEN {10 + p} ELSE {}

\* point.descendants of every point: the dependents by id, each with its
\* needsUpdate mark and its needsRegularUpdate attribute (false for the
\* dependent of point 2), and the property needsUpdate of the object
\* descendants itself, which no code sets before update() does
InitDescendants ==
    [p \in Points |->
        [elements |-> [d \in DependentsOf(p) |->
                          [needsUpdate |-> FALSE, needsRegularUpdate |-> p # 2]],
         needsUpdate |-> "unset"]]

\* lines 302-310 of update(): for every member, once for every own key of
\* its descendants, descendants.needsUpdate is set to
\* descendants.needsRegularUpdate || board.needsFullUpdate; descendants has no
\* property needsRegularUpdate
MarkDescendants(descendants, objects, needsFullUpdate) ==
    [p \in DOMAIN descendants |->
        IF /\ InSeq(objects, p)
           /\ (DOMAIN descendants[p].elements # {} \/ descendants[p].needsUpdate # "unset")
        THEN [descendants[p] EXCEPT
                !.needsUpdate = IF needsFullUpdate THEN "true" ELSE "false"]
        ELSE descendants[p]]

\* ------------------------------------------------------------------- roles
setRotationCenter(g, object) == [g EXCEPT !.rotationCenter = object]

setScaleCenter(g, object) == [g EXCEPT !.scaleCenter = object]

\* this[action + 'Points']
ActionPoints(g, action) ==
    CASE action = "rotation" -> g.rotationPoints
      [] action = "translation" -> g.translationPoints
      [] OTHER -> g.scalePoints

WithActionPoints(g, action, s) ==
    CASE action = "rotation" -> [g EXCEPT !.rotationPoints = s]
      [] action = "translation" -> [g EXCEPT !.translationPoints = s]
      [] OTHER -> [g EXCEPT !.scalePoints = s]

_addActionPoint(g, action, point) ==
    WithActionPoints(g, action, Append(ActionPoints(g, action), point))

_removeActionPoint(g, action, point) ==
    LET idx == IndexOf(ActionPoints(g, action), point)
    IN  IF idx > 0
        THEN WithActionPoints(g, action, Splice1(ActionPoints(g, action), idx))
        ELSE g

RECURSIVE AddActionPoints(_, _, _)
AddActionPoints(g, action, objs) ==
    IF objs = <<>> THEN g
    ELSE AddActionPoints(_addActionPoint(g, action, Head(objs)), action, Tail(objs))

\* args is what the caller passed: [arr |-> TRUE, items |-> the array], or
\* [arr |-> FALSE, items |-> the separate arguments].  The public setters hand
\* on their first parameter only, and for a non-array `arguments` is
\* (action, objects).
_setActionPoints(g, action, args) ==
    LET objs == IF args.arr THEN args.items
                ELSE IF args.items = <<>> THEN <<StrElem>>
                ELSE <<StrElem, args.items[1]>>
    IN  AddActionPoints(WithActionPoints(g, action, <<>>), action, objs)

setRotationPoints(g, args) == _setActionPoints(g, "rotation", args)

addRotationPoint(g, point) == _addActionPoint(g, "rotation", point)

removeRotationPoint(g, point) == _removeActionPoint(g, "rotation", point)

setTranslationPoints(g, args) == _setActionPoints(g, "translation", args)

addTranslationPoint(g, point) == _addActionPoint(g, "translation", point)

removeTranslationPoint(g, point) == _removeActionPoint(g, "translation", point)

\* direction || 'xy'; "none" is an omitted direction
DirOrDefault(direction) == IF direction = "none" THEN "xy" ELSE direction

RECURSIVE SetDirections(_, _, _)
SetDirections(dirs, objs, direction) ==
    IF objs = <<>> THEN dirs
    ELSE SetDirections(SetEntry(dirs, Head(objs), DirOrDefault(direction)),
                       Tail(objs), direction)

\* called with an array and a direction, or with one point and a direction
setScalePoints(g, args, direction) ==
    LET objs == IF args.arr THEN args.items
                ELSE IF args.items = <<>> THEN <<>> ELSE <<args.items[1]>>
        g1 == [g EXCEPT !.scaleDirections = SetDirections(@, objs, direction)]
    IN  _setActionPoints(g1, "scale", args)

\* the point pushed to scalePoints and no direction recorded
addScalePoint_NoDirection(g, point, direction) == _addActionPoint(g, "scale", point)

addScalePoint(g, point, direction) ==
    LET g1 == _addActionPoint(g, "scale", point)
    IN  [g1 EXCEPT !.scaleDirections = SetEntry(@, point, DirOrDefault(direction))]

removeScalePoint(g, point) == _removeActionPoint(g, "scale", point)

\* ------------------------------------------------------------ update cycle
\* every difference counted as a change, however small
ChangedMembers_Exact(g, pos) ==
    SelectSeq(g.objects, LAMBDA el : pos[el] # g.coords[el])

\* the ids of the members whose live coordinates are farther than Mat.eps from
\* their cached coordinates, in iteration order
ChangedMembers(g, pos) ==
    SelectSeq(g.objects, LAMBDA el : DistSq(pos[el], g.coords[el]) > Eps * Eps)

\* the scaling role looked at before the rotation role
_update_find_drag_type_ScalingFirst(g, pos) ==
    LET changed == ChangedMembers(g, pos)
        obj == changed[1]
    IN  IF Len(changed) = 0
        THEN [action |-> "nothing", id |-> NoId, changed |-> changed]
        ELSE [action |->
                 IF Len(changed) > 1 THEN "translation"
                 ELSE IF InSeq(g.scalePoints, obj) /\ Exists(g.scaleCenter)
                      THEN "scaling"
                 ELSE IF InSeq(g.rotationPoints, obj) /\ Exists(g.rotationCenter)
                      THEN "rotation"
                 ELSE IF InSeq(g.translationPoints, obj) THEN "translation"
                 ELSE "nothing",
              id |-> obj, changed |-> changed]

\* the scaling role granted whether or not a scale center is set
_update_find_drag_type_CenterIgnored(g, pos) ==
    LET changed == ChangedMembers(g, pos)
        obj == changed[1]
    IN  IF Len(changed) = 0
        THEN [action |-> "nothing", id |-> NoId, changed |-> changed]
        ELSE [action |->
                 IF Len(changed) > 1 THEN "translation"
                 ELSE IF InSeq(g.rotationPoints, obj) /\ Exists(g.rotationCenter)
                      THEN "rotation"
                 ELSE IF InSeq(g.scalePoints, obj)
                      THEN "scaling"
                 ELSE IF InSeq(g.translationPoints, obj) THEN "translation"
                 ELSE "nothing",
              id |-> obj, changed |-> changed]

\* a rotation point whose center is unset granted no action at all
_update_find_drag_type_NoFallThrough(g, pos) ==
    LET changed == ChangedMembers(g, pos)
        obj == changed[1]
    IN  IF Len(changed) = 0
        THEN [action |-> "nothing", id |-> NoId, changed |-> changed]
        ELSE [action |->
                 IF Len(changed) > 1 THEN "translation"
                 ELSE IF InSeq(g.rotationPoints, obj)
                      THEN (IF Exists(g.rotationCenter) THEN "rotation" ELSE "nothing")
                 ELSE IF InSeq(g.scalePoints, obj) /\ Exists(g.scaleCenter)
                      THEN "scaling"
                 ELSE IF InSeq(g.translationPoints, obj) THEN "translation"
                 ELSE "nothing",
              id |-> obj, changed |-> changed]

\* lines 329-377: the action and the member that started it
_update_find_drag_type(g, pos) ==
    LET changed == ChangedMembers(g, pos)
        obj == changed[1]
    IN  IF Len(changed) = 0
        THEN [action |-> "nothing", id |-> NoId, changed |-> changed]
        ELSE [action |->
                 IF Len(changed) > 1 THEN "translation"
                 ELSE IF InSeq(g.rotationPoints, obj) /\ Exists(g.rotationCenter)
                      THEN "rotation"
                 ELSE IF InSeq(g.scalePoints, obj) /\ Exists(g.scaleCenter)
                      THEN "scaling"
                 ELSE IF InSeq(g.translationPoints, obj) THEN "translation"
                 ELSE "nothing",
              id |-> obj, changed |-> changed]

RECURSIVE SumCoord(_, _, _)
SumCoord(coords, els, i) ==
    IF els = {} THEN 0
    ELSE LET el == CHOOSE e \in els : TRUE
         IN  coords[el][i] + SumCoord(coords, els \ {el}, i)

\* sums over every entry of this.coords
_update_centroid_center(g) ==
    LET len == Cardinality(DOMAIN g.coords)
    IN  IF len > 0
        THEN <<RoundDiv(SumCoord(g.coords, DOMAIN g.coords, 1), len),
               RoundDiv(SumCoord(g.coords, DOMAIN g.coords, 2), len)>>
        ELSE <<0, 0>>

\* any other value taken for the origin
ResolveCenter_Default(g, pos, c) ==
    CASE c.kind = "point" -> [ok |-> TRUE, v |-> pos[c.id]]
      [] c.kind = "centroid" -> [ok |-> TRUE, v |-> _update_centroid_center(g)]
      [] c.kind = "array" -> [ok |-> TRUE, v |-> c.v]
      [] c.kind = "function" -> [ok |-> TRUE, v |-> c.v]
      [] OTHER -> [ok |-> TRUE, v |-> <<0, 0>>]

\* lines 260-270 of update(): the center, or that there is none
ResolveCenter(g, pos, c) ==
    CASE c.kind = "point" -> [ok |-> TRUE, v |-> pos[c.id]]
      [] c.kind = "centroid" -> [ok |-> TRUE, v |-> _update_centroid_center(g)]
      [] c.kind = "array" -> [ok |-> TRUE, v |-> c.v]
      [] c.kind = "function" -> [ok |-> TRUE, v |-> c.v]
      [] OTHER -> [ok |-> FALSE, v |-> <<0, 0>>]

\* Math.atan2(0, 0) is 0: a zero vector has the direction of (1, 0)
Direction(v) == IF v = <<0, 0>> THEN <<1, 0>> ELSE v

\* the rotation by the angle from l to s, the wrong way round
RotateTransform_Reversed(s, center, l) ==
    LET a == Direction(<<s[1] - center[1], s[2] - center[2]>>)
        b == Direction(<<l[1] - center[1], l[2] - center[2]>>)
    IN  [type |-> "rotate", c |-> center,
         dot |-> a[1]*b[1] + a[2]*b[2],
         cross |-> a[2]*b[1] - a[1]*b[2],
         n2 |-> (a[1]*a[1] + a[2]*a[2]) * (b[1]*b[1] + b[2]*b[2])]

\* the rotation by Geometry.rad(s, center, l) about center, kept as the
\* cosine dot/sqrt(n2) and the sine cross/sqrt(n2) of the angle
RotateTransform(s, center, l) ==
    LET a == Direction(<<s[1] - center[1], s[2] - center[2]>>)
        b == Direction(<<l[1] - center[1], l[2] - center[2]>>)
    IN  [type |-> "rotate", c |-> center,
         dot |-> a[1]*b[1] + a[2]*b[2],
         cross |-> a[1]*b[2] - a[2]*b[1],
         n2 |-> (a[1]*a[1] + a[2]*a[2]) * (b[1]*b[1] + b[2]*b[2])]

\* the scaling in both directions whatever dir names
ScaleTransform_BothDirections(center, d0, d1, dir) ==
    [type |-> "generic", c |-> center, d0 |-> d0, d1 |-> d1,
     fx |-> TRUE, fy |-> TRUE]

\* the scaling about center by sqrt(d1/d0) in the directions dir names
ScaleTransform(center, d0, d1, dir) ==
    [type |-> "generic", c |-> center, d0 |-> d0, d1 |-> d1,
     fx |-> dir \in {"x", "xy"},
     fy |-> dir \in {"y", "xy"}]

\* Mat.matVecMult(t.matrix, [1, x, y]) for a rotation or a scaling
MatVecMult(t, v) ==
    LET dx == v[1] - t.c[1]
        dy == v[2] - t.c[2]
    IN  IF t.type = "rotate"
        THEN <<t.c[1] + RoundMulSqrt(t.dot*dx - t.cross*dy, 1, t.n2),
               t.c[2] + RoundMulSqrt(t.cross*dx + t.dot*dy, 1, t.n2)>>
        ELSE <<t.c[1] + (IF t.fx THEN RoundMulSqrt(dx, t.d1, t.d0) ELSE dx),
               t.c[2] + (IF t.fy THEN RoundMulSqrt(dy, t.d1, t.d0) ELSE dy)>>

\* t.applyOnce([obj]): the transformation applied to the coordinates obj has
ApplyOnce(t, pos, el) == MatVecMult(t, pos[el])

\* a distance below Mat.eps taken as Mat.eps and the scaling carried out
PrepareTransform_Clamped(g, pos, drag) ==
    LET s == g.coords[drag.id]
        l == pos[drag.id]
        spec == IF drag.action = "rotation" THEN g.rotationCenter ELSE g.scaleCenter
        center == ResolveCenter(g, pos, spec)
        d == DistSq(s, center.v)
        d0 == IF d < Eps * Eps THEN Eps * Eps ELSE d
    IN  IF drag.action = "translation"
        THEN [out |-> "ok", t |-> [type |-> "translate", v |-> <<l[1] - s[1], l[2] - s[2]>>]]
        ELSE IF ~center.ok THEN [out |-> "nocenter"]
        ELSE IF drag.action = "rotation"
             THEN [out |-> "ok", t |-> RotateTransform(s, center.v, l)]
        ELSE IF drag.id \notin DOMAIN g.scaleDirections THEN [out |-> "throw"]
        ELSE [out |-> "ok",
              t |-> ScaleTransform(center.v, d0, DistSq(l, center.v),
                                   g.scaleDirections[drag.id])]

\* lines 244-294 of update(): the transformation for the drag, or the reason
\* why update() returns without one
PrepareTransform(g, pos, drag) ==
    LET s == g.coords[drag.id]
        l == pos[drag.id]
        spec == IF drag.action = "rotation" THEN g.rotationCenter ELSE g.scaleCenter
        center == ResolveCenter(g, pos, spec)
        d0 == DistSq(s, center.v)
    IN  IF drag.action = "translation"
        THEN [out |-> "ok", t |-> [type |-> "translate", v |-> <<l[1] - s[1], l[2] - s[2]>>]]
        ELSE IF ~center.ok THEN [out |-> "nocenter"]
        ELSE IF drag.action = "rotation"
             THEN [out |-> "ok", t |-> RotateTransform(s, center.v, l)]
        ELSE IF d0 < Eps * Eps THEN [out |-> "degenerate"]
        ELSE IF drag.id \notin DOMAIN g.scaleDirections THEN [out |-> "throw"]
        ELSE [out |-> "ok",
              t |-> ScaleTransform(center.v, d0, DistSq(l, center.v),
                                   g.scaleDirections[drag.id])]

\* the members that were moved from outside shifted like the others
ApplyTo_ChangedShifted(g, pos, drag, t, el) ==
    IF el # drag.id
    THEN IF drag.action = "translation"
         THEN <<g.coords[el][1] + t.v[1], g.coords[el][2] + t.v[2]>>
         ELSE ApplyOnce(t, pos, el)
    ELSE IF drag.action = "translation" THEN pos[el]
         ELSE MatVecMult(t, g.coords[el])

\* the translation added to the live coordinates instead of the cached ones
ApplyTo_FromLive(g, pos, drag, t, el) ==
    IF el # drag.id
    THEN IF drag.action = "translation"
         THEN IF ~InSeq(drag.changed, el)
              THEN <<pos[el][1] + t.v[1], pos[el][2] + t.v[2]>>
              ELSE pos[el]
         ELSE ApplyOnce(t, pos, el)
    ELSE IF drag.action = "translation" THEN pos[el]
         ELSE MatVecMult(t, g.coords[el])

\* the drag source left where it was dragged to, whatever the action
ApplyTo_DragSourceKept(g, pos, drag, t, el) ==
    IF el # drag.id
    THEN IF drag.action = "translation"
         THEN IF ~InSeq(drag.changed, el)
              THEN <<g.coords[el][1] + t.v[1], g.coords[el][2] + t.v[2]>>
              ELSE pos[el]
         ELSE ApplyOnce(t, pos, el)
    ELSE pos[el]

\* the new coordinates of member el
ApplyTo(g, pos, drag, t, el) ==
    IF el # drag.id
    THEN IF drag.action = "translation"
         THEN IF ~InSeq(drag.changed, el)
              THEN <<g.coords[el][1] + t.v[1], g.coords[el][2] + t.v[2]>>
              ELSE pos[el]
         ELSE ApplyOnce(t, pos, el)
    ELSE IF drag.action = "translation" THEN pos[el]
         ELSE MatVecMult(t, g.coords[el])

\* the loop without the look into board.objects
_update_apply_transformation_KeepStale(g, pos, boardObjects, drag, t) ==
    [objects |-> g.objects,
     pos |-> [p \in DOMAIN pos |->
                IF InSeq(g.objects, p) THEN ApplyTo(g, pos, drag, t, p) ELSE pos[p]]]

\* the members left and the coordinates of all points after the loop: a
\* member that is no key of board.objects is deleted from this.objects
_update_apply_transformation(g, pos, boardObjects, drag, t) ==
    [objects |-> SelectSeq(g.objects, LAMBDA el : el \in boardObjects),
     pos |-> [p \in DOMAIN pos |->
                IF InSeq(g.objects, p) /\ p \in boardObjects
                THEN ApplyTo(g, pos, drag, t, p) ELSE pos[p]]]

\* update() without its entry guard
UpdateEntry_Unguarded(g, pos) ==
    LET drag == _update_find_drag_type(g, pos)
        prep == PrepareTransform(g, pos, drag)
        not == [type |-> "none"]
    IN  IF drag.action = "nothing"
        THEN [out |-> "nothing", g |-> _updateCoordsCache(g, pos, drag.id),
              drag |-> drag, t |-> not]
        ELSE IF prep.out # "ok"
        THEN [out |-> prep.out, g |-> g, drag |-> drag, t |-> not]
        ELSE [out |-> "ok", g |-> g, drag |-> drag, t |-> prep.t]

\* the flag set to false as soon as a transformation has been built, before
\* the applier runs
UpdateEntry_ClearsFirst(g, pos) ==
    LET drag == _update_find_drag_type(g, pos)
        prep == PrepareTransform(g, pos, drag)
        none == [action |-> "nothing", id |-> NoId, changed |-> <<>>]
        not == [type |-> "none"]
    IN  IF ~g.needsUpdate
        THEN [out |-> "guard", g |-> g, drag |-> none, t |-> not]
        ELSE IF drag.action = "nothing"
        THEN [out |-> "nothing", g |-> _updateCoordsCache(g, pos, drag.id),
              drag |-> drag, t |-> not]
        ELSE IF prep.out # "ok"
        THEN [out |-> prep.out, g |-> g, drag |-> drag, t |-> not]
        ELSE [out |-> "ok", g |-> [g EXCEPT !.needsUpdate = FALSE],
              drag |-> drag, t |-> prep.t]

\* the cache left alone when the action is 'nothing'
UpdateEntry_NothingKeepsCache(g, pos) ==
    LET drag == _update_find_drag_type(g, pos)
        prep == PrepareTransform(g, pos, drag)
        none == [action |-> "nothing", id |-> NoId, changed |-> <<>>]
        not == [type |-> "none"]
    IN  IF ~g.needsUpdate
        THEN [out |-> "guard", g |-> g, drag |-> none, t |-> not]
        ELSE IF drag.action = "nothing"
        THEN [out |-> "nothing", g |-> g, drag |-> drag, t |-> not]
        ELSE IF prep.out # "ok"
        THEN [out |-> prep.out, g |-> g, drag |-> drag, t |-> not]
        ELSE [out |-> "ok", g |-> g, drag |-> drag, t |-> prep.t]

\* lines 231-294 of update(): the entry guard, the classification and the
\* transformation.  out is "guard" (not dirty), "nothing", "nocenter",
\* "degenerate", "throw" or "ok"; g is the group as update() leaves it when it
\* returns at once
UpdateEntry(g, pos) ==
    LET drag == _update_find_drag_type(g, pos)
        prep == PrepareTransform(g, pos, drag)
        none == [action |-> "nothing", id |-> NoId, changed |-> <<>>]
        not == [type |-> "none"]
    IN  IF ~g.needsUpdate
        THEN [out |-> "guard", g |-> g, drag |-> none, t |-> not]
        ELSE IF drag.action = "nothing"
        THEN [out |-> "nothing", g |-> _updateCoordsCache(g, pos, drag.id),
              drag |-> drag, t |-> not]
        ELSE IF prep.out # "ok"
        THEN [out |-> prep.out, g |-> g, drag |-> drag, t |-> not]
        ELSE [out |-> "ok", g |-> g, drag |-> drag, t |-> prep.t]

\* the flag left as it is
ClearNeedsUpdate_Forgotten(g) == g

\* line 298
ClearNeedsUpdate(g) == [g EXCEPT !.needsUpdate = FALSE]

\* Point.update() of a point with snapToGrid, run by board.updateElements
SnapToGrid(v) == <<(v[1] \div SnapUnit) * SnapUnit, (v[2] \div SnapUnit) * SnapUnit>>

\* -------------------------------------------------------------- timedChunk
\* what Array.prototype.shift returns on an empty array
Undefined == 0

\* no call of timedChunk yet; given is the array as it was handed over, items
\* the caller's array as it is now, todo the clone, timer whether a timeout
\* is pending, processed the arguments of the calls of process and callbacks
\* the arguments of the calls of callback
NoChunk ==
    [started |-> FALSE, given |-> <<>>, items |-> <<>>, todo |-> <<>>, timer |-> FALSE,
     processed |-> <<>>, callbacks |-> <<>>]

timedChunk(items) ==
    [started |-> TRUE, given |-> items, items |-> items, todo |-> items, timer |-> TRUE,
     processed |-> <<>>, callbacks |-> <<>>]

\* the do-while loop of timerFun when the clock allows n rounds
RECURSIVE Chunk(_, _)
Chunk(c, n) ==
    LET shifted == IF c.todo = <<>> THEN Undefined ELSE Head(c.todo)
        c1 == [c EXCEPT !.processed = Append(@, shifted),
                        !.todo = IF @ = <<>> THEN <<>> ELSE Tail(@)]
    IN  IF c1.todo # <<>> /\ n > 1 THEN Chunk(c1, n - 1) ELSE c1

timerFun(c, n) ==
    LET c1 == Chunk(c, n)
    IN  IF c1.todo # <<>>
        THEN [c1 EXCEPT !.timer = TRUE]
        ELSE [c1 EXCEPT !.timer = FALSE, !.callbacks = Append(@, c1.items)]

\* ------------------------------------------------------------------ events
\* an owner without internal listener lists and a DOM node without
\* listeners; lists maps an event type to owner['x_internal' + type], node
\* holds the listeners of the node, made counts the wrappers made so far and
\* call is the last call with the lists it started from
NoCall == [op |-> "none", type |-> "", fn |-> 0, owner |-> TRUE, before |-> EmptyMap]

NoRegistry == [lists |-> EmptyMap, node |-> {}, made |-> 0, call |-> NoCall]

\* the DOM node handed to the event functions, and no node
Node == "node"
NoNode == "undefined"

\* Type.indexOf(array, value, 'origin'), 1-based; 0 when absent
IndexOfOrigin(list, fn) ==
    IF \E i \in 1..Len(list) : list[i].origin = fn
    THEN CHOOSE i \in 1..Len(list) :
            list[i].origin = fn /\ \A j \in 1..(i-1) : list[j].origin # fn
    ELSE 0

\* the wrapper el is a new function on every call: id tells the wrappers apart
addEvent(r, obj, type, fn) ==
    LET el == [origin |-> fn, id |-> r.made + 1]
        list == IF type \in DOMAIN r.lists THEN r.lists[type] ELSE <<>>
    IN  [r EXCEPT !.lists = SetEntry(@, type, Append(list, el)),
                  !.node = IF obj = Node THEN @ \cup {<<type, el>>} ELSE @,
                  !.made = @ + 1]

removeEvent(r, obj, type, fn, owner) ==
    IF ~owner THEN r
    ELSE IF type \notin DOMAIN r.lists THEN r
    ELSE LET list == r.lists[type]
             i == IndexOfOrigin(list, fn)
         IN  IF i = 0 THEN r
             ELSE [r EXCEPT !.node = IF obj = Node THEN @ \ {<<type, list[i]>>} ELSE @,
                            !.lists = SetEntry(@, type, Splice1(list, i))]

\* the loop of removeAllEvents from index i down to the first
RECURSIVE RemoveDownFrom(_, _, _, _)
RemoveDownFrom(r, obj, type, i) ==
    IF i < 1 THEN r
    ELSE RemoveDownFrom(removeEvent(r, obj, type, r.lists[type][i].origin, TRUE), obj, type, i - 1)

removeAllEvents(r, obj, type) ==
    IF type \in DOMAIN r.lists
    THEN RemoveDownFrom(r, obj, type, Len(r.lists[type]))
    ELSE r

\* -------------------------------------------------------------- createAxes
\* ThreeD.createAxes (src/src/3d/box3d.js).  A JavaScript array is a sequence
\* whose index is one more than in the code: parents is <<view, parents[1],
\* parents[2]>>, and the directions x, y, z are 1, 2, 3.
directions == <<"x", "y", "z">>
suffixAxis == "Axis"
sides == <<"Rear", "Front">>

toUpperCase(dir) == CASE dir = "x" -> "X" [] dir = "y" -> "Y" [] dir = "z" -> "Z"

\* what reading a key that axes does not have gives
UndefinedEl == [type |-> "undefined"]

NoD3 == [exists |-> FALSE, bbox3d |-> <<>>]

NoAxes ==
    [made |-> FALSE, view |-> [D3 |-> NoD3], parents |-> <<>>, pos |-> "",
     rear |-> <<0, 0, 0>>, front |-> <<0, 0, 0>>, axes |-> EmptyMap]

\* the corners rear and front of the bounding box
rear(parents) ==
    LET view == parents[1]
    IN  IF view.D3.exists
        THEN [i \in 1..3 |-> view.D3.bbox3d[i][1]]
        ELSE [i \in 1..3 |-> parents[2][i]]

front(parents) ==
    LET view == parents[1]
    IN  IF view.D3.exists
        THEN [i \in 1..3 |-> view.D3.bbox3d[i][2]]
        ELSE [i \in 1..3 |-> parents[3][2]]

\* the axis of direction i when the axes are centered
CenteredAxis(fr, i) ==
    [type |-> "axis3d", from |-> <<0, 0, 0>>, to |-> [<<0, 0, 0>> EXCEPT ![i] = fr[i]]]

\* the axis of direction i when the axes are bordered
BorderedAxis(re, fr, i) ==
    LET from == IF i = 3 THEN [re EXCEPT ![2] = fr[2]] ELSE [re EXCEPT ![i] = fr[i]]
        to == IF i = 3 THEN [fr EXCEPT ![1] = re[1]] ELSE [fr EXCEPT ![3] = re[3]]
    IN  [type |-> "axis3d", from |-> from, to |-> [to EXCEPT ![i] = fr[i]]]

\* the first loop: the axes of the directions i..3
RECURSIVE AxesFrom(_, _, _, _, _)
AxesFrom(axs, re, fr, pos, i) ==
    IF i > 3 THEN axs
    ELSE LET na == directions[i] \o suffixAxis
             nb == na \o "Border"
             ticks == [type |-> "ticks", of |-> nb,
                       tickEndings |-> IF i = 3 THEN <<1, 0>> ELSE <<0, 1>>]
         IN  IF pos = "center"
             THEN AxesFrom(SetEntry(axs, na, CenteredAxis(fr, i)), re, fr, pos, i + 1)
             ELSE AxesFrom(SetEntry(SetEntry(axs, nb, BorderedAxis(re, fr, i)),
                                    nb \o "Ticks", ticks),
                           re, fr, pos, i + 1)

\* axes[name]
Lookup(axs, name) == IF name \in DOMAIN axs THEN axs[name] ELSE UndefinedEl

\* the origin: the intersection of axes.xAxis and axes.yAxis
Origin(axs) ==
    [type |-> "intersection",
     parents |-> <<Lookup(axs, directions[1] \o suffixAxis),
                   Lookup(axs, directions[2] \o suffixAxis)>>]

\* the plane of direction i on side j
Plane(re, fr, i, j) ==
    LET i1 == (i % 3) + 1
        i2 == ((i + 1) % 3) + 1
    IN  [type |-> "plane3d", elType |-> "axisplane3d",
         from |-> [<<0, 0, 0>> EXCEPT ![i] = IF j = 1 THEN re[i] ELSE fr[i]],
         vec1 |-> [<<0, 0, 0>> EXCEPT ![i1] = 1],
         vec2 |-> [<<0, 0, 0>> EXCEPT ![i2] = 1],
         range1 |-> <<re[i1], fr[i1]>>, range2 |-> <<re[i2], fr[i2]>>]

\* the axis of direction (i + k) % 3 on the plane of direction i on side j
PlaneAxis(re, fr, i, j, k) ==
    LET i1 == ((i - 1 + k) % 3) + 1
        at == IF j = 1 THEN re[i] ELSE fr[i]
    IN  [type |-> "axis3d",
         from |-> [[<<0, 0, 0>> EXCEPT ![i] = at] EXCEPT ![i1] = re[i1]],
         to |-> [[<<0, 0, 0>> EXCEPT ![i] = at] EXCEPT ![i1] = fr[i1]]]

PlaneAxisName(i, j, k) ==
    directions[i] \o "Plane" \o sides[j] \o toUpperCase(directions[((i - 1 + k) % 3) + 1]) \o "Axis"

\* the planes and the axes on them, added to axs
WithPlanes(axs, re, fr) ==
    LET planes == {directions[i] \o "Plane" \o sides[j] : i \in 1..3, j \in 1..2}
        onPlanes == {PlaneAxisName(i, j, k) : i \in 1..3, j \in 1..2, k \in 1..2}
    IN  [na \in (DOMAIN axs) \cup planes \cup onPlanes |->
            IF \E i \in 1..3, j \in 1..2, k \in 1..2 : na = PlaneAxisName(i, j, k)
            THEN LET c == CHOOSE c \in (1..3) \X (1..2) \X (1..2) :
                                na = PlaneAxisName(c[1], c[2], c[3])
                 IN  PlaneAxis(re, fr, c[1], c[2], c[3])
            ELSE IF \E i \in 1..3, j \in 1..2 : na = directions[i] \o "Plane" \o sides[j]
            THEN LET c == CHOOSE c \in (1..3) \X (1..2) :
                                na = directions[c[1]] \o "Plane" \o sides[c[2]]
                 IN  Plane(re, fr, c[1], c[2])
            ELSE axs[na]]

\* the call createAxes(board, parents, attributes) where attributes give
\* axesposition pos: the object axes it returns, with the corners it used
createAxes(parents, pos) ==
    LET re == rear(parents)
        fr == front(parents)
        axs == AxesFrom(EmptyMap, re, fr, pos, 1)
    IN  [made |-> TRUE, view |-> parents[1], parents |-> parents, pos |-> pos,
         rear |-> re, front |-> fr,
         axes |-> WithPlanes(SetEntry(axs, "O", Origin(axs)), re, fr)]

\* ------------------------------------------------------------------ inputs
\* where the points are when the group is created
InitPos == (1 :> <<0, 0>>) @@ (2 :> <<4, 0>>) @@ (3 :> <<4, 4>>) @@ [p \in Points |-> <<2 * p, 2>>]

\* by how much one drag moves a point; <<1, 0>> is a move of Mat.eps
Deltas == {<<1, 0>>, <<2, 0>>, <<-4, 8>>}

\* center specifications handed to setRotationCenter and setScaleCenter
RotationCenters == {CenterNull, CenterPoint(1), CenterOther}

ScaleCenters == {CenterCentroid, CenterFunction(<<0, 0>>), CenterOther}

\* what the role setters are called with: an array, or separate arguments
PointArgs == {[arr |-> TRUE, items |-> <<2, 3>>], [arr |-> FALSE, items |-> <<2>>]}

Directions == {"x", "none"}

\* lists handed to the constructor
PointLists == {<<1, 2, 3>>, <<2, 1>>}

\* the points that have the attribute fixed, and the lists handed to the
\* constructor that name one of them
FixedPoints == {1}

FixedLists == {<<2, 1>>}

\* lists handed to addPoints and (as the objects of another group) to addGroup
AddLists == {<<3, 1>>}

\* the points the calls after the setup name
AddedPoints == {2, 3}

RemovedPoints == {1, 2}

RolePoints == {2}

\* the ids _updateCoordsCache is called with from outside: the empty id and
\* that of a point that is a member of some groups and not of others
CacheArgs == {NoId, 3}

\* the points that may have the attribute snapToGrid
SnapPoints == {3}

\* a group as the documented examples set it up: created, then configured by
\* chained calls
Configured(objects, rc, sc, rot, scl, dir) ==
    LET g0 == Group(objects, {}, InitPos)
        g1 == setRotationCenter(g0, rc)
        g2 == IF rot = <<>> THEN g1 ELSE setRotationPoints(g1, [arr |-> TRUE, items |-> rot])
        g3 == setScaleCenter(g2, sc)
    IN  IF scl = <<>> THEN g3 ELSE setScalePoints(g3, [arr |-> TRUE, items |-> scl], dir)

\* ------------------------------------------------------------------- state
VARIABLES
    g,            \* the group
    pos,          \* usrCoords of every point of the board
    boardObjects, \* the ids that are keys of board.objects
    stack,        \* the update() calls in progress, the innermost last
    hist,         \* what the last operation was and what it started from
    used,         \* how many drags and API calls have been made
    groups,       \* point.groups of every point: the ids of its groups
    wasMember,    \* the points that have been members of the group
    descendants,  \* point.descendants of every point
    other,        \* another group of the board, the one handed to addGroup
    chunk,        \* a call of JXG.timedChunk: its arrays, its timer, what it called
    registry,     \* an owner's internal listener lists and the listeners of a DOM node
    axes          \* what a call of ThreeD.createAxes made

\* the state of the group and its board, and the state of the utilities
groupvars == <<g, pos, boardObjects, stack, hist, used, groups, wasMember, descendants, other>>
utils == <<chunk, registry, axes>>
vars == <<g, pos, boardObjects, stack, hist, used, groups, wasMember, descendants, other,
          chunk, registry, axes>>

NoDrag == [action |-> "nothing", id |-> NoId, changed |-> <<>>]

\* the record of an operation: its name and argument and, for update() and
\* the calls of the group API, the group and the coordinates it started from;
\* for update() also how it went (out, drag), the
\* outcomes of the update() calls made from inside it (inner), how often it
\* called board.updateElements (calls), the members its applier assigned and
\* the points the board's recompute pass moved (snapped), how many
\* transformations were built (built) and how often the applier assigned each
\* point's coordinates (times), and what board.needsFullUpdate was when the
\* descendants were marked (full)
Op(name, arg) ==
    [op |-> name, arg |-> arg, g0 |-> NewGroup, pos0 |-> InitPos, out |-> "",
     drag |-> NoDrag, inner |-> <<>>, calls |-> 0, assigned |-> {}, snapped |-> {},
     built |-> 0, times |-> [p \in Points |-> 0], full |-> FALSE]

\* a group and the record of its creation
Created(objects, fixed, grp) ==
    [g |-> grp, hist |-> Op("create", [objects |-> objects, fixed |-> fixed])]

\* a group and the record of the call made on it after its creation
Called(name, arg, before, grp) ==
    [g |-> grp, hist |-> [Op(name, arg) EXCEPT !.g0 = before]]

\* the groups the behaviours start from, each with the record of the call
\* that made it
InitSetups ==
    {Created(l, {}, Configured(l, CenterCentroid, CenterNull, <<>>, <<>>, "none")) :
        l \in PointLists}
    \cup {Created(<<1, 2, 3>>, {}, Configured(<<1, 2, 3>>, rc, CenterNull, <<2>>, <<>>, "none")) :
            rc \in {CenterArray(<<0, 0>>), CenterCentroid, CenterOther}}
    \cup {Created(<<1, 2, 3>>, {}, Configured(<<1, 2, 3>>, CenterCentroid, sc, <<>>, <<2>>, d)) :
            sc \in {CenterPoint(1), CenterArray(<<4, 0>>), CenterOther}, d \in {"y", "none"}}
    \cup {Created(<<1, 2, 3>>, {},
                  Configured(<<1, 2, 3>>, CenterArray(<<0, 0>>), CenterPoint(1), <<2>>, <<2>>, "none"))}
    \cup {Created(l, FixedPoints, Group(l, FixedPoints, InitPos)) : l \in FixedLists}
    \cup {Called("removePoint", 3, Group(<<1, 2, 3>>, {}, InitPos),
                 removePoint(Group(<<1, 2, 3>>, {}, InitPos), 3)),
          Called("addPoint", 2, Group(<<1, 2, 3>>, {}, InitPos),
                 addPoint(Group(<<1, 2, 3>>, {}, InitPos), InitPos, 2))}

InitGroups == {s.g : s \in InitSetups}

\* the other group of the board, created before the group
OtherGroup == Group(<<3, 1>>, {}, InitPos)

\* point.groups when the other group has been created
OtherRegistered ==
    [p \in Points |-> IF InSeq(OtherGroup.objects, p) THEN <<OtherId>> ELSE <<>>]

\* point.groups when the group has been set up: addPoint has been called for
\* the points in translationPoints and for no others
InitRegistered(grp) ==
    RegisterPoints(OtherRegistered, SelectSeq(grp.translationPoints, LAMBDA e : e \in Points))

\* no utility has been called
UtilsIdle == chunk = NoChunk /\ registry = NoRegistry /\ axes = NoAxes

\* the group and its board after the construction of one of the setups
GroupInit(setups) ==
    /\ \E s \in setups : g = s.g /\ hist = s.hist
    /\ pos = InitPos
    /\ boardObjects = Points
    /\ stack = <<>>
    /\ used = [moves |-> 0, api |-> 0]
    /\ groups = InitRegistered(g)
    /\ wasMember = {p \in Points : InSeq(InitRegistered(g)[p], GroupId)}
    /\ other = OtherGroup
    /\ descendants = InitDescendants

Init == GroupInit(InitSetups) /\ UtilsIdle

Idle == stack = <<>>

\* ------------------------------------------------------- the board's part
\* a point is dragged (or its coordinates are set) from outside the group
Move(p, d) ==
    /\ Idle
    /\ used.moves < MaxMoves
    /\ p \in boardObjects
    /\ pos' = [pos EXCEPT ![p] = <<@[1] + d[1], @[2] + d[2]>>]
    /\ hist' = Op("move", p)
    /\ used' = [used EXCEPT !.moves = @ + 1]
    /\ UNCHANGED <<g, boardObjects, stack, groups, wasMember, descendants, other, utils>>

\* board.prepareUpdate marks the group
PrepareUpdate ==
    /\ Idle
    /\ ~g.needsUpdate
    /\ g' = [g EXCEPT !.needsUpdate = TRUE]
    /\ hist' = Op("prepareUpdate", 0)
    /\ UNCHANGED <<pos, boardObjects, stack, used, groups, wasMember, descendants, other, utils>>

\* board.removeObject(p): the point is no longer a key of board.objects
RemoveObject(p) ==
    /\ Idle
    /\ used.api < MaxApi
    /\ p \in boardObjects
    /\ boardObjects' = boardObjects \ {p}
    /\ hist' = Op("removeObject", p)
    /\ used' = [used EXCEPT !.api = @ + 1]
    /\ UNCHANGED <<g, pos, stack, groups, wasMember, descendants, other, utils>>

\* ----------------------------------------------------------- the group API
Api(name, arg, newg) ==
    /\ Idle
    /\ used.api < MaxApi
    /\ g' = newg
    /\ hist' = [Op(name, arg) EXCEPT !.g0 = g, !.pos0 = pos]
    /\ used' = [used EXCEPT !.api = @ + 1]
    /\ wasMember' = wasMember \cup Range(newg.objects)
    /\ UNCHANGED <<pos, boardObjects, stack, descendants, other, utils>>

AddPoint(p) == Api("addPoint", p, addPoint(g, pos, p)) /\ groups' = RegisterPoint(groups, p)

AddPoints(l) == Api("addPoints", l, addPoints(g, pos, l)) /\ groups' = RegisterPoints(groups, l)

AddGroup ==
    /\ Api("addGroup", other.objects, addGroup(g, pos, other.objects))
    /\ groups' = RegisterPoints(groups, other.objects)

RemovePoint(p) == Api("removePoint", p, removePoint(g, p)) /\ UNCHANGED groups

UpdateCoordsCache(el) ==
    Api("_updateCoordsCache", el, _updateCoordsCache(g, pos, el)) /\ UNCHANGED groups

Ungroup == Api("ungroup", 0, ungroup(g)) /\ groups' = ReleasePoints(groups, g.objects)

SetRotationCenter(c) == Api("setRotationCenter", c, setRotationCenter(g, c)) /\ UNCHANGED groups

SetScaleCenter(c) == Api("setScaleCenter", c, setScaleCenter(g, c)) /\ UNCHANGED groups

SetRotationPoints(a) == Api("setRotationPoints", a, setRotationPoints(g, a)) /\ UNCHANGED groups

AddRotationPoint(p) == Api("addRotationPoint", p, addRotationPoint(g, p)) /\ UNCHANGED groups

RemoveRotationPoint(p) == Api("removeRotationPoint", p, removeRotationPoint(g, p)) /\ UNCHANGED groups

SetTranslationPoints(a) == Api("setTranslationPoints", a, setTranslationPoints(g, a)) /\ UNCHANGED groups

AddTranslationPoint(p) == Api("addTranslationPoint", p, addTranslationPoint(g, p)) /\ UNCHANGED groups

RemoveTranslationPoint(p) == Api("removeTranslationPoint", p, removeTranslationPoint(g, p)) /\ UNCHANGED groups

SetScalePoints(a, d) == Api("setScalePoints", <<a, d>>, setScalePoints(g, a, d)) /\ UNCHANGED groups

AddScalePoint(p, d) == Api("addScalePoint", <<p, d>>, addScalePoint(g, p, d)) /\ UNCHANGED groups

RemoveScalePoint(p) == Api("removeScalePoint", p, removeScalePoint(g, p)) /\ UNCHANGED groups

\* ------------------------------------------------------------------ update
Top == stack[Len(stack)]

SetTopPc(pc) == [stack EXCEPT ![Len(stack)].pc = pc]

Frame(r) == [pc |-> "apply", drag |-> r.drag, t |-> r.t]

\* the members on which the loop of _update_apply_transformation calls
\* setCoordinates
AssignedBy(drag) ==
    {el \in Range(g.objects) \cap boardObjects :
        IF drag.action = "translation"
        THEN el # drag.id /\ ~InSeq(drag.changed, el)
        ELSE TRUE}

\* update() is called while no update() is running: lines 231-294
Update ==
    /\ Idle
    /\ LET r == UpdateEntry(g, pos)
       IN  /\ g' = r.g
           /\ stack' = IF r.out = "ok" THEN <<Frame(r)>> ELSE <<>>
           /\ hist' = [Op("update", 0) EXCEPT
                         !.g0 = g, !.pos0 = pos,
                         !.out = IF r.out = "ok" THEN "running" ELSE r.out,
                         !.drag = r.drag,
                         !.built = IF r.out = "ok" THEN 1 ELSE 0]
    /\ UNCHANGED <<pos, boardObjects, used, groups, wasMember, descendants, other, utils>>

\* line 296
Apply ==
    /\ ~Idle
    /\ Top.pc = "apply"
    /\ LET r == _update_apply_transformation(g, pos, boardObjects, Top.drag, Top.t)
       IN  /\ g' = [g EXCEPT !.objects = r.objects]
           /\ pos' = r.pos
    /\ stack' = SetTopPc("clear")
    /\ hist' = [hist EXCEPT !.assigned = @ \cup AssignedBy(Top.drag),
                            !.times = [p \in Points |->
                                IF p \in AssignedBy(Top.drag) THEN @[p] + 1 ELSE @[p]]]
    /\ UNCHANGED <<boardObjects, used, groups, wasMember, descendants, other, utils>>

\* lines 298-310; needsFullUpdate is board.needsFullUpdate at that time
ClearAndMark(needsFullUpdate) ==
    /\ ~Idle
    /\ Top.pc = "clear"
    /\ g' = ClearNeedsUpdate(g)
    /\ descendants' = MarkDescendants(descendants, g.objects, needsFullUpdate)
    /\ stack' = SetTopPc("updateElements")
    /\ hist' = [hist EXCEPT !.full = needsFullUpdate]
    /\ UNCHANGED <<pos, boardObjects, used, groups, wasMember, other, utils>>

\* update() going on to its closing loop without the call of
\* board.updateElements
UpdateElements_Skipped(sp) ==
    /\ ~Idle
    /\ Top.pc = "updateElements"
    /\ sp = NoId
    /\ stack' = SetTopPc("refresh")
    /\ UNCHANGED <<g, pos, hist, boardObjects, used, groups, wasMember, descendants, other, utils>>

\* line 311, board.updateElements(drag): the points are recomputed (sp, if a
\* member, is snapped to the grid) and then the board updates its groups,
\* this one among them
UpdateElements(sp) ==
    /\ ~Idle
    /\ Top.pc = "updateElements"
    /\ LET pos1 == IF sp = NoId THEN pos ELSE [pos EXCEPT ![sp] = SnapToGrid(@)]
           called == Len(stack) < MaxDepth
           r == UpdateEntry(g, pos1)
       IN  /\ pos' = pos1
           /\ g' = IF called THEN r.g ELSE g
           /\ stack' = IF called /\ r.out = "ok"
                       THEN Append(SetTopPc("refresh"), Frame(r))
                       ELSE SetTopPc("refresh")
           /\ hist' = [hist EXCEPT !.calls = @ + 1,
                                   !.inner = IF called THEN Append(@, r.out) ELSE @,
                                   !.snapped = IF pos1 = pos THEN @ ELSE @ \cup {sp},
                                   !.built = IF called /\ r.out = "ok" THEN @ + 1 ELSE @]
    /\ UNCHANGED <<boardObjects, used, groups, wasMember, descendants, other, utils>>

\* lines 315-321
Refresh ==
    /\ ~Idle
    /\ Top.pc = "refresh"
    /\ g' = RefreshAll(g, pos, g.objects)
    /\ stack' = SubSeq(stack, 1, Len(stack) - 1)
    /\ hist' = IF Len(stack) = 1 THEN [hist EXCEPT !.out = "done"] ELSE hist
    /\ UNCHANGED <<pos, boardObjects, used, groups, wasMember, descendants, other, utils>>

Next ==
    \/ \E p \in Points, d \in Deltas : Move(p, d)
    \/ PrepareUpdate
    \/ \E p \in RemovedPoints : RemoveObject(p)
    \/ \E p \in AddedPoints : AddPoint(p)
    \/ \E l \in AddLists : AddPoints(l)
    \/ AddGroup
    \/ \E p \in RemovedPoints : RemovePoint(p)
    \/ \E el \in CacheArgs : UpdateCoordsCache(el)
    \/ Ungroup
    \/ \E c \in RotationCenters : SetRotationCenter(c)
    \/ \E c \in ScaleCenters : SetScaleCenter(c)
    \/ \E a \in PointArgs : SetRotationPoints(a)
    \/ \E p \in RolePoints : AddRotationPoint(p)
    \/ \E p \in RolePoints : RemoveRotationPoint(p)
    \/ \E a \in PointArgs : SetTranslationPoints(a)
    \/ \E p \in RolePoints : AddTranslationPoint(p)
    \/ \E p \in RolePoints : RemoveTranslationPoint(p)
    \/ \E a \in PointArgs, d \in Directions : SetScalePoints(a, d)
    \/ \E p \in RolePoints, d \in Directions : AddScalePoint(p, d)
    \/ \E p \in RolePoints : RemoveScalePoint(p)
    \/ Update
    \/ Apply
    \/ \E needsFullUpdate \in BOOLEAN : ClearAndMark(needsFullUpdate)
    \/ \E sp \in {NoId} \cup (Range(g.objects) \cap SnapPoints) : UpdateElements(sp)
    \/ Refresh

Spec == Init /\ [][Next]_vars

\* ---------------------------------------------------------- the utilities
\* JXG.timedChunk, the event functions of JXG and ThreeD.createAxes do not
\* touch a group: each is exercised on its own, beside one group at rest
QuietSetups == {Created(<<1, 2, 3>>, {}, Group(<<1, 2, 3>>, {}, InitPos))}

UtilInit == GroupInit(QuietSetups) /\ UtilsIdle

\* the arrays handed to timedChunk
Items == {1, 2}
MaxItems == 3
ItemArrays == UNION {[1..n -> Items] : n \in 0..MaxItems}
\* how many rounds of the loop fit into the 300 ms of one timer callback
MaxRounds == 2

TimedChunk(items) ==
    /\ ~chunk.started
    /\ chunk' = timedChunk(items)
    /\ UNCHANGED <<groupvars, registry, axes>>

\* the timeout fires
TimerFun(n) ==
    /\ chunk.timer
    /\ chunk' = timerFun(chunk, n)
    /\ UNCHANGED <<groupvars, registry, axes>>

\* the caller empties its array, or pushes an item, while the chunks run
CallerChanges(push) ==
    /\ chunk.started
    /\ chunk.timer
    /\ chunk.items = chunk.given
    /\ chunk' = [chunk EXCEPT !.items = IF push = Undefined THEN <<>> ELSE Append(@, push)]
    /\ chunk'.items # chunk.items
    /\ UNCHANGED <<groupvars, registry, axes>>

ChunkNext ==
    \/ \E items \in ItemArrays : TimedChunk(items)
    \/ \E n \in 1..MaxRounds : TimerFun(n)
    \/ \E push \in Items \cup {Undefined} : CallerChanges(push)

ChunkSpec == UtilInit /\ [][ChunkNext]_vars

\* the event types and the handlers fn of the calls
EventTypes == {"click", "move"}
Handlers == {1, 2}
MaxEvents == 3

\* the record of a call of an event function and the lists it started from
Logged(r, op, type, fn, owner, before) ==
    [r EXCEPT !.call = [op |-> op, type |-> type, fn |-> fn, owner |-> owner,
                        before |-> before.lists]]

AddEvent(obj, type, fn) ==
    /\ registry.made < MaxEvents
    /\ registry' = Logged(addEvent(registry, obj, type, fn), "addEvent", type, fn, TRUE, registry)
    /\ UNCHANGED <<groupvars, chunk, axes>>

RemoveEvent(obj, type, fn, owner) ==
    /\ registry' = Logged(removeEvent(registry, obj, type, fn, owner), "removeEvent",
                          type, fn, owner, registry)
    /\ UNCHANGED <<groupvars, chunk, axes>>

RemoveAllEvents(obj, type) ==
    /\ registry' = Logged(removeAllEvents(registry, obj, type), "removeAllEvents",
                          type, 0, TRUE, registry)
    /\ UNCHANGED <<groupvars, chunk, axes>>

EventNext ==
    \/ \E obj \in {Node, NoNode}, type \in EventTypes, fn \in Handlers : AddEvent(obj, type, fn)
    \/ \E obj \in {Node, NoNode}, type \in EventTypes, fn \in Handlers, owner \in BOOLEAN :
            RemoveEvent(obj, type, fn, owner)
    \/ \E obj \in {Node, NoNode}, type \in EventTypes : RemoveAllEvents(obj, type)

EventSpec == UtilInit /\ [][EventNext]_vars

\* the views and corners handed to createAxes, and the positions of the axes
Bboxes == [1..3 -> {<<-5, 5>>, <<-2, 3>>}]
RearCorners == {<<-5, -5, -5>>, <<-4, -3, -2>>}
FrontCorners == [1..3 -> {3, 4, 5}]
AxesPositions == {"center", "border"}
AxesParents ==
    {<<[D3 |-> NoD3], re, fr>> : re \in RearCorners, fr \in FrontCorners}
    \cup {<<[D3 |-> [exists |-> TRUE, bbox3d |-> b]]>> : b \in Bboxes}

CreateAxes(parents, axesposition) ==
    /\ axes' = createAxes(parents, axesposition)
    /\ UNCHANGED <<groupvars, chunk, registry>>

AxesNext ==
    \E parents \in AxesParents, axesposition \in AxesPositions : CreateAxes(parents, axesposition)

AxesSpec == UtilInit /\ [][AxesNext]_vars

\* ------------------------------------------------------------------ claims
\* update() was the last call made from outside, and it found the flag set
Entered == hist.op = "update" /\ hist.g0.needsUpdate

\* the members that were farther than Mat.eps from their cached coordinates
\* when update() was called
MovedAtEntry ==
    {el \in Range(hist.g0.objects) :
        DistSq(hist.pos0[el], hist.g0.coords[el]) > Eps * Eps}

\* the first of them in the iteration order of the members
FirstMoved ==
    hist.g0.objects[CHOOSE i \in 1..Len(hist.g0.objects) :
        /\ hist.g0.objects[i] \in MovedAtEntry
        /\ \A j \in 1..(i-1) : hist.g0.objects[j] \notin MovedAtEntry]

\* by how much el had moved from its cached coordinates
DeltaAtEntry(el) ==
    <<hist.pos0[el][1] - hist.g0.coords[el][1], hist.pos0[el][2] - hist.g0.coords[el][2]>>

\* the applier of the cycle has run
Applied ==
    /\ hist.op = "update"
    /\ \/ hist.out = "done"
       \/ hist.out = "running" /\ stack # <<>> /\ stack[1].pc # "apply"

\* the role that lets p alone start a rotation or a scaling
HasTurnRole(p) ==
    \/ InSeq(hist.g0.rotationPoints, p) /\ hist.g0.rotationCenter.kind # "null"
    \/ InSeq(hist.g0.scalePoints, p) /\ hist.g0.scaleCenter.kind # "null"

\* C1: in a group whose members are all translation points, when exactly one
\* member p has been moved by (dx, dy) from its cached position and update()
\* runs with the flag set, every other member is put at its cached position
\* plus (dx, dy) and p stays where it was moved to.  (A member that the
\* board's own recompute pass moved afterwards is not the group's doing.)
C1_TranslationCorrectness ==
    (/\ Entered /\ Applied
     /\ Cardinality(MovedAtEntry) = 1
     /\ \A el \in Range(hist.g0.objects) : InSeq(hist.g0.translationPoints, el)
     /\ ~HasTurnRole(FirstMoved))
    => \A el \in Range(g.objects) \ hist.snapped :
          pos[el] = IF el = FirstMoved THEN hist.pos0[el]
                    ELSE <<hist.g0.coords[el][1] + DeltaAtEntry(FirstMoved)[1],
                           hist.g0.coords[el][2] + DeltaAtEntry(FirstMoved)[2]>>

\* a translation cycle has moved a member whose live coordinates were off its
\* cached ones by Mat.eps
C1_Witness ==
    /\ Entered /\ hist.out = "done"
    /\ Cardinality(MovedAtEntry) = 1
    /\ \A el \in Range(hist.g0.objects) : InSeq(hist.g0.translationPoints, el)
    /\ ~HasTurnRole(FirstMoved)
    /\ \E el \in Range(g.objects) \ hist.snapped :
          /\ el # FirstMoved
          /\ hist.pos0[el] # hist.g0.coords[el]
          /\ pos[el] # hist.pos0[el]

\* the center the classified action uses
ActionCenter(grp, action) ==
    IF action = "rotation" THEN grp.rotationCenter ELSE grp.scaleCenter

\* C2: when the classified action is a rotation or a scaling and its center is
\* neither a point, 'centroid', an array nor a function, update() returns and
\* has changed no coordinates, no cache entry, no member and no role set.
C2_AbortOnUnsupportedCenter ==
    (/\ Entered
     /\ hist.drag.action \in {"rotation", "scaling"}
     /\ ActionCenter(hist.g0, hist.drag.action).kind
           \notin {"point", "centroid", "array", "function"})
    => Idle /\ pos = hist.pos0 /\ g = hist.g0

C2_Witness ==
    /\ Entered /\ hist.out = "nocenter"
    /\ hist.drag.action = "scaling"
    /\ MovedAtEntry # {}
    /\ Len(g.objects) > 1

\* C3: whenever board.updateElements is about to be called the flag is
\* already false, and every update() the recompute pass calls on this group
\* returns at the entry guard: it classifies nothing, assigns nothing and
\* board.updateElements is called once per cycle.
C3_RecursionGuard ==
    /\ (~Idle /\ Top.pc = "updateElements") => ~g.needsUpdate
    /\ \A i \in 1..Len(hist.inner) : hist.inner[i] = "guard"
    /\ hist.calls <= 1
    /\ Len(stack) <= 1

\* the recompute pass of a cycle has called update() again
C3_Witness == Entered /\ Applied /\ hist.inner = <<"guard">> /\ hist.assigned # {}

C5_NoOpIdempotent ==
    (/\ hist.op = "update"
     /\ \A el \in Range(hist.g0.objects) :
           DistSq(hist.pos0[el], hist.g0.coords[el]) <= Eps * Eps)
    => /\ Idle
       /\ pos = hist.pos0
       /\ g.coords = hist.g0.coords
       /\ g.objects = hist.g0.objects

\* update() ran with the flag set while a member was off its cached
\* coordinates by no more than Mat.eps
C5_Witness ==
    /\ Entered /\ hist.out = "nothing" /\ hist.drag.id = NoId
    /\ \E el \in Range(hist.g0.objects) : hist.pos0[el] # hist.g0.coords[el]
    /\ Len(g.objects) > 1

\* C6: when exactly one member has changed, it is in rotationPoints and in
\* scalePoints and both centers are set, the action is 'rotation'.
C6_RolePrecedence ==
    (/\ Entered
     /\ Cardinality(MovedAtEntry) = 1
     /\ InSeq(hist.g0.rotationPoints, FirstMoved)
     /\ InSeq(hist.g0.scalePoints, FirstMoved)
     /\ Exists(hist.g0.rotationCenter)
     /\ Exists(hist.g0.scaleCenter))
    => hist.drag.action = "rotation" /\ hist.drag.id = FirstMoved

\* such a member, a translation point as well, has been moved and the cycle
\* has run
C6_Witness ==
    /\ Entered /\ hist.out = "done"
    /\ Cardinality(MovedAtEntry) = 1
    /\ InSeq(hist.g0.rotationPoints, FirstMoved)
    /\ InSeq(hist.g0.scalePoints, FirstMoved)
    /\ InSeq(hist.g0.translationPoints, FirstMoved)
    /\ Exists(hist.g0.rotationCenter)
    /\ Exists(hist.g0.scaleCenter)
    /\ hist.drag.action = "rotation"

\* C7: when two or more members are off their cached coordinates, the action
\* is 'translation' whatever the roles and centers are, the drag source is
\* the first changed member in iteration order, and after the applier every
\* changed member is where it was put from outside and every other member is
\* at its cached position plus the drag source's delta.
C7_MultiChangeTranslation ==
    (Entered /\ Cardinality(MovedAtEntry) >= 2)
    => /\ hist.drag.action = "translation"
       /\ hist.drag.id = FirstMoved
       /\ hist.out \in {"running", "done"}
       /\ Applied =>
            \A el \in Range(g.objects) \ hist.snapped :
               pos[el] = IF el \in MovedAtEntry THEN hist.pos0[el]
                         ELSE <<hist.g0.coords[el][1] + DeltaAtEntry(FirstMoved)[1],
                                hist.g0.coords[el][2] + DeltaAtEntry(FirstMoved)[2]>>

\* two members were moved by different amounts, the first of them a rotation
\* or scale point with its center set, and a third member has been shifted
C7_Witness ==
    /\ Entered /\ hist.out = "done"
    /\ Cardinality(MovedAtEntry) >= 2
    /\ HasTurnRole(FirstMoved)
    /\ \E el \in MovedAtEntry : DeltaAtEntry(el) # DeltaAtEntry(FirstMoved)
    /\ \E el \in Range(g.objects) \ (MovedAtEntry \cup hist.snapped) :
          pos[el] # hist.pos0[el]

\* the scale center as update() resolves it at entry
ScaleCenterAtEntry == ResolveCenter(hist.g0, hist.pos0, hist.g0.scaleCenter)

\* C8: when the action is 'scaling' and the cached position of the drag
\* source is closer than Mat.eps to the resolved scale center, update()
\* returns without an error and without a transformation: every coordinate,
\* the dragged point's too, and the whole group are as they were.
C8_ScalingDegeneracy ==
    (/\ Entered
     /\ hist.drag.action = "scaling"
     /\ ScaleCenterAtEntry.ok
     /\ DistSq(hist.g0.coords[hist.drag.id], ScaleCenterAtEntry.v) < Eps * Eps)
    => /\ hist.out = "degenerate"
       /\ Idle
       /\ pos = hist.pos0
       /\ g = hist.g0

\* a scale point whose cached position is the scale center has been dragged
C8_Witness ==
    /\ Entered /\ hist.out = "degenerate"
    /\ MovedAtEntry = {hist.drag.id}
    /\ hist.g0.coords[hist.drag.id] = ScaleCenterAtEntry.v
    /\ Len(g.objects) > 1

\* C9 as the specification words it: the ids that have a cache entry are the
\* ids of the members.
C9_SnapshotIdsAreMemberIds == DOMAIN g.coords = Range(g.objects)

\* C10: when a cycle that applied a transformation has returned, the cache
\* entry of every member is the member's live position, the one it has after
\* the applier and the board's recompute pass, so that update() would now
\* find no changed member.
C10_SnapshotRefreshed ==
    (hist.op = "update" /\ hist.out = "done")
    => /\ \A el \in Range(g.objects) :
             el \in DOMAIN g.coords /\ g.coords[el] = pos[el]
       /\ ChangedMembers(g, pos) = <<>>
       /\ _update_find_drag_type(g, pos).action = "nothing"

\* a cycle has returned in which the applier moved a member and the recompute
\* pass moved one too
C10_Witness ==
    /\ hist.op = "update" /\ hist.out = "done"
    /\ hist.snapped # {}
    /\ \E el \in hist.assigned \cap Range(g.objects) : pos[el] # hist.pos0[el]

\* how often the group's id occurs in the groups list of p
Occurrences(p) == Cardinality({i \in DOMAIN groups[p] : groups[p][i] = GroupId})

\* C11 as the specification words it: the group's id occurs exactly once in
\* the groups list of every member, however often the point was added, and
\* after ungroup() it occurs in the groups list of no point that was a member.
C11_CrossReference ==
    /\ \A p \in Range(g.objects) : Occurrences(p) = 1
    /\ hist.op = "ungroup" => \A p \in wasMember : Occurrences(p) = 0

\* C12: from the entry of update() to its return, the update() calls made by
\* the recompute pass included, at most one transformation is built and the
\* applier assigns the coordinates of each point at most once.
C12_OneTransformPerCycle ==
    hist.op = "update"
    => /\ hist.built <= 1
       /\ \A p \in Points : hist.times[p] <= 1
       /\ (hist.built = 0) => (hist.assigned = {} /\ Idle)

\* a cycle has returned that built a transformation, assigned a member and
\* had update() called again by the recompute pass
C12_Witness ==
    /\ Entered /\ hist.out = "done"
    /\ hist.built = 1
    /\ \E p \in Points : hist.times[p] = 1 /\ pos[p] # hist.pos0[p]
    /\ hist.inner # <<>>

\* the arithmetic mean of the cached coordinates of the current members
MemberMean ==
    <<RoundDiv(SumCoord(g.coords, Range(g.objects), 1), Cardinality(Range(g.objects))),
      RoundDiv(SumCoord(g.coords, Range(g.objects), 2), Cardinality(Range(g.objects)))>>

\* C13 as the specification words it: in every reachable state of a group
\* that has members, the center 'centroid' resolves to the arithmetic mean of
\* the cached coordinates of exactly the current members.
C13_CentroidOfMembers ==
    g.objects # <<>> => _update_centroid_center(g) = MemberMean

\* A * sqrt(m) <= B * sqrt(n), for integers A, B and naturals m, n
LeqRoot(A, m, B, n) ==
    IF A >= 0 /\ B >= 0 THEN A*A*m <= B*B*n
    ELSE IF A <= 0 /\ B <= 0 THEN A*A*m >= B*B*n
    ELSE A < 0

\* e is num * sqrt(a/b) to the unit: it differs from it by no more than 1/2
NearestTo(e, num, a, b) ==
    /\ LeqRoot(2*e - 1, b, 2*num, a)
    /\ LeqRoot(2*num, a, 2*e + 1, b)

\* the positions that are the cached position of el up to Mat.eps, the
\* precision to which the group takes a member as not moved
NearCached(el) ==
    {o \in {<<hist.g0.coords[el][1] + i, hist.g0.coords[el][2] + j>> :
                i \in -Eps..Eps, j \in -Eps..Eps} :
        DistSq(o, hist.g0.coords[el]) <= Eps * Eps}

\* the rotation center as update() resolves it at entry
RotationCenterAtEntry == ResolveCenter(hist.g0, hist.pos0, hist.g0.rotationCenter)

\* q is o turned about c by the signed angle from s to l about c
IsRotated(q, o, c, s, l) ==
    LET ax == s[1] - c[1]
        ay == s[2] - c[2]
        bx == l[1] - c[1]
        by == l[2] - c[2]
        cosn == ax*bx + ay*by
        sinn == ax*by - ay*bx
        n2 == (ax*ax + ay*ay) * (bx*bx + by*by)
        dx == o[1] - c[1]
        dy == o[2] - c[2]
    IN  /\ NearestTo(q[1] - c[1], cosn*dx - sinn*dy, 1, n2)
        /\ NearestTo(q[2] - c[2], sinn*dx + cosn*dy, 1, n2)

\* a rotation cycle started by the one moved member, whose cached and live
\* positions both differ from the center, has run its applier
RotationApplied ==
    /\ Entered /\ Applied
    /\ hist.drag.action = "rotation"
    /\ Cardinality(MovedAtEntry) = 1
    /\ RotationCenterAtEntry.ok
    /\ hist.g0.coords[hist.drag.id] # RotationCenterAtEntry.v
    /\ hist.pos0[hist.drag.id] # RotationCenterAtEntry.v

IsScaled(q, o, c, D0, D1, dir) ==
    /\ IF dir \in {"x", "xy"}
       THEN NearestTo(q[1] - c[1], o[1] - c[1], D1, D0)
       ELSE q[1] = o[1]
    /\ IF dir \in {"y", "xy"}
       THEN NearestTo(q[2] - c[2], o[2] - c[2], D1, D0)
       ELSE q[2] = o[2]

\* a scaling cycle started by the one moved member, whose cached position is
\* at least Mat.eps from the center and which has a scale direction, has run
\* its applier
ScalingApplied ==
    /\ Entered /\ Applied
    /\ hist.drag.action = "scaling"
    /\ Cardinality(MovedAtEntry) = 1
    /\ ScaleCenterAtEntry.ok
    /\ DistSq(hist.g0.coords[hist.drag.id], ScaleCenterAtEntry.v) >= Eps * Eps
    /\ hist.drag.id \in DOMAIN hist.g0.scaleDirections

StaleAtEntry == Range(hist.g0.objects) \ boardObjects

\* C16: when the applier runs and a member is no key of board.objects, that
\* member is deleted from the members and its coordinates are not assigned;
\* the other members stay members, the cycle goes on without an error, calls
\* board.updateElements once and ends with the cache of every remaining
\* member refreshed; in a translation the remaining members are shifted.
C16_StaleMemberDropped ==
    (Entered /\ Applied /\ StaleAtEntry # {})
    => /\ Range(g.objects) = Range(hist.g0.objects) \ StaleAtEntry
       /\ \A el \in StaleAtEntry : pos[el] = hist.pos0[el] /\ hist.times[el] = 0
       /\ hist.out \in {"running", "done"}
       /\ hist.drag.action = "translation" =>
             \A el \in Range(g.objects) \ (MovedAtEntry \cup hist.snapped) :
                /\ hist.times[el] = 1
                /\ pos[el] = <<hist.g0.coords[el][1] + DeltaAtEntry(FirstMoved)[1],
                               hist.g0.coords[el][2] + DeltaAtEntry(FirstMoved)[2]>>
       /\ hist.out = "done" =>
             /\ hist.calls = 1
             /\ \A el \in Range(g.objects) : g.coords[el] = pos[el]

\* a cycle has ended in which a member had left the board and another member
\* was moved by the applier
C16_Witness ==
    /\ Entered /\ hist.out = "done"
    /\ StaleAtEntry # {}
    /\ \E el \in Range(g.objects) : hist.times[el] = 1 /\ pos[el] # hist.pos0[el]

\* C17 as the specification words it: when board.updateElements is about to
\* be called, every dependent of every member has its needsUpdate mark equal
\* to its own needsRegularUpdate or board.needsFullUpdate.
C17_DependentsMarked ==
    (~Idle /\ Top.pc = "updateElements")
    => \A p \in Range(g.objects) : \A d \in DOMAIN descendants[p].elements :
          descendants[p].elements[d].needsUpdate
             = (descendants[p].elements[d].needsRegularUpdate \/ hist.full)

\* C18 as the specification words it: when update() was entered with the flag
\* set and the classifier found no action, the flag is false when update()
\* has returned.
C18_DirtyClearedOnNone ==
    (Entered /\ hist.out = "nothing") => ~g.needsUpdate

\* C19 as the specification words it: when update() has returned because the
\* center was of no supported kind or the scale distance was degenerate, the
\* flag is false.
C19_DirtyClearedOnAbort ==
    (Entered /\ hist.out \in {"nocenter", "degenerate"}) => ~g.needsUpdate

\* the coordinates when p alone has been moved by d
MovedAlone(p, d) == [pos EXCEPT ![p] = <<@[1] + d[1], @[2] + d[2]>>]

\* the coordinates update() leaves when it is called, the flag set, with the
\* points at ps
AfterUpdate(ps) ==
    LET r == UpdateEntry([g EXCEPT !.needsUpdate = TRUE], ps)
    IN  IF r.out = "ok"
        THEN _update_apply_transformation(r.g, ps, boardObjects, r.drag, r.t).pos
        ELSE ps

\* C20 as the specification words it: right after removeTranslationPoint(p),
\* p being a member in no rotation and no scale role, an update() that finds
\* p alone moved leaves every other member where it is.
C20_TranslationRoleRemoved ==
    (/\ hist.op = "removeTranslationPoint"
     /\ InSeq(g.objects, hist.arg)
     /\ ~InSeq(g.rotationPoints, hist.arg)
     /\ ~InSeq(g.scalePoints, hist.arg))
    => \A d \in Deltas :
          ChangedMembers(g, MovedAlone(hist.arg, d)) = <<hist.arg>>
          => \A el \in Range(g.objects) \ {hist.arg} :
                AfterUpdate(MovedAlone(hist.arg, d))[el] = pos[el]

\* the role setter that was last called, if one was: its action, else ""
SetterAction ==
    CASE hist.op = "setRotationPoints" -> "rotation"
      [] hist.op = "setTranslationPoints" -> "translation"
      [] OTHER -> ""

\* C21: after setRotationPoints or setTranslationPoints has been called with
\* the points q1..qn, as one array or as separate arguments, the role set is
\* exactly q1..qn, in that order, and holds nothing else.
C21_RoleSetReplaced ==
    SetterAction # "" => ActionPoints(g, SetterAction) = hist.arg.items

\* a group as the constructor leaves it, before any setter has been called
FreshGroups ==
    {Group(l, {}, InitPos) : l \in PointLists}
    \cup {Group(l, FixedPoints, InitPos) : l \in FixedLists}

\* C22: while scaleCenter is unset (setScaleCenter has not been called), no
\* update cycle, the outer one or one started from inside it, resolves to
\* scaling, whatever scalePoints holds; and the rotation center of a group
\* fresh from the constructor is 'centroid'.
C22_NoScalingUntilConfigured ==
    /\ g.scaleCenter = CenterNull =>
          /\ hist.op = "update" => hist.drag.action # "scaling"
          /\ \A i \in 1..Len(stack) : stack[i].drag.action # "scaling"
    /\ (hist.op = "create" /\ g \in FreshGroups) =>
          /\ g.rotationCenter = CenterCentroid
          /\ g.scaleCenter = CenterNull

\* a scale point of a group without scale center was dragged alone and the
\* cycle went on to the translation role
C22_Witness ==
    /\ Entered
    /\ g.scaleCenter = CenterNull
    /\ \E p \in Points :
          /\ MovedAtEntry = {p}
          /\ InSeq(hist.g0.scalePoints, p)
          /\ ~InSeq(hist.g0.rotationPoints, p)
    /\ hist.drag.action = "translation"
    /\ hist.out = "done"

\* C23: update() called while needsUpdate is false returns at once: the
\* members' coordinates, the cache, the membership, the role sets, the centers
\* and the flag are what they were, no update() is in progress and
\* board.updateElements has not been called, even when a member is away from
\* its cached coordinates.
C23_EntryGuard ==
    (hist.op = "update" /\ ~hist.g0.needsUpdate) =>
        /\ hist.out = "guard"
        /\ g = hist.g0
        /\ pos = hist.pos0
        /\ stack = <<>>
        /\ hist.calls = 0
        /\ hist.assigned = {}

\* update() was called with the flag false while a member was farther than
\* Mat.eps from its cached coordinates
C23_Witness ==
    /\ hist.op = "update"
    /\ ~hist.g0.needsUpdate
    /\ MovedAtEntry # {}
    /\ \E p \in MovedAtEntry : InSeq(hist.g0.translationPoints, p)
    /\ Cardinality(Range(hist.g0.objects)) > 1

\* exactly p was away from its cached coordinates when update() was called,
\* and p had no role that grants an action
RoleLessMove(p) ==
    /\ Entered
    /\ MovedAtEntry = {p}
    /\ ~HasTurnRole(p)
    /\ ~InSeq(hist.g0.translationPoints, p)

\* q is a translation point without the rotation or scaling role, and in ps
\* it alone is away from its cached coordinates
TranslationDrag(q, ps) ==
    /\ InSeq(g.translationPoints, q)
    /\ ~(InSeq(g.rotationPoints, q) /\ g.rotationCenter.kind # "null")
    /\ ~(InSeq(g.scalePoints, q) /\ g.scaleCenter.kind # "null")
    /\ \A el \in Range(g.objects) :
          (DistSq(ps[el], g.coords[el]) > Eps * Eps) <=> el = q

\* C24: when exactly one member p has changed and p is neither a rotation
\* point with a center set, nor a scale point with a center set, nor a
\* translation point, the action is 'nothing', the cache entry of p becomes
\* the live coordinates of p, and the coordinates of all points and the cache
\* entries of all others stay as they were; when a translation point q is
\* moved next, update() shifts p by the displacement of q from its cached
\* coordinates and by nothing more.
C24_RoleLessMove ==
    \A p \in Points : RoleLessMove(p) =>
        /\ hist.drag.action = "nothing"
        /\ hist.out = "nothing"
        /\ stack = <<>>
        /\ pos = hist.pos0
        /\ g.coords[p] = pos[p]
        /\ g.coords = [hist.g0.coords EXCEPT ![p] = pos[p]]
        /\ g.objects = hist.g0.objects
        /\ \A q \in Range(g.objects) \ {p}, d \in Deltas :
              TranslationDrag(q, MovedAlone(q, d)) =>
                  AfterUpdate(MovedAlone(q, d))[p] =
                      <<pos[p][1] + MovedAlone(q, d)[q][1] - g.coords[q][1],
                        pos[p][2] + MovedAlone(q, d)[q][2] - g.coords[q][2]>>

\* a member without any role was dragged alone, update() has run, and a
\* translation point is there to be moved next
C24_Witness ==
    \E p \in Points :
        /\ RoleLessMove(p)
        /\ hist.out = "nothing"
        /\ p \in boardObjects
        /\ \E q \in Range(g.objects) \ {p} :
              TranslationDrag(q, MovedAlone(q, <<-4, 8>>))

\* the action the roles of p granted when update() was called: the first that
\* applies of rotation, scaling and translation
GrantedAction(p) ==
    CASE InSeq(hist.g0.rotationPoints, p) /\ hist.g0.rotationCenter.kind # "null" -> "rotation"
      [] ~(InSeq(hist.g0.rotationPoints, p) /\ hist.g0.rotationCenter.kind # "null")
         /\ InSeq(hist.g0.scalePoints, p) /\ hist.g0.scaleCenter.kind # "null" -> "scaling"
      [] ~HasTurnRole(p) /\ InSeq(hist.g0.translationPoints, p) -> "translation"
      [] OTHER -> "nothing"

\* C25: when exactly one member p has changed, the action is rotation if p is
\* in rotationPoints and rotationCenter is set; else scaling if p is in
\* scalePoints and scaleCenter is set; else translation if p is in
\* translationPoints; else nothing; and p is the drag source.  A rotation
\* point whose rotationCenter is unset gets the action of its other roles.
C25_ClassifierFallThrough ==
    \A p \in Points : (Entered /\ MovedAtEntry = {p}) =>
        /\ hist.drag.action = GrantedAction(p)
        /\ hist.drag.id = p
        /\ hist.drag.changed = <<p>>

\* a rotation point that is a scale point and a translation point as well
\* was dragged alone with rotationCenter unset and a scale center set: the
\* cycle was a scaling
C25_Witness ==
    \E p \in Points :
        /\ Entered
        /\ MovedAtEntry = {p}
        /\ InSeq(hist.g0.rotationPoints, p)
        /\ hist.g0.rotationCenter = CenterNull
        /\ InSeq(hist.g0.scalePoints, p)
        /\ InSeq(hist.g0.translationPoints, p)
        /\ hist.drag.action = "scaling"
        /\ hist.out = "done"

\* the drag source of the cycle
DragSource == hist.drag.id

\* C26 as stated: after the applier of a rotation or scaling cycle the drag
\* source is at the transformation of its cached position, not where it was
\* dragged to (under a scaling in direction 'x' its y coordinate is its cached
\* y again); after the applier of a translation cycle the drag source is
\* exactly where it was dragged to.
C26_DragSourceRecomputed ==
    /\ (RotationApplied /\ DragSource \notin hist.snapped) =>
          IsRotated(pos[DragSource], hist.g0.coords[DragSource], RotationCenterAtEntry.v,
                    hist.g0.coords[DragSource], hist.pos0[DragSource])
    /\ (ScalingApplied /\ DragSource \notin hist.snapped) =>
          IsScaled(pos[DragSource], hist.g0.coords[DragSource], ScaleCenterAtEntry.v,
                   DistSq(hist.g0.coords[DragSource], ScaleCenterAtEntry.v),
                   DistSq(hist.pos0[DragSource], ScaleCenterAtEntry.v),
                   hist.g0.scaleDirections[DragSource])
    /\ (Entered /\ Applied /\ hist.drag.action = "translation"
            /\ DragSource \notin hist.snapped) =>
          pos[DragSource] = hist.pos0[DragSource]

\* C26, amended: the same for a drag source that is still an object of the
\* board when the applier runs; a drag source that has left the board is
\* dropped from the group and stays where it was dragged to.
C26_DragSourceOnBoardRecomputed ==
    /\ (RotationApplied /\ DragSource \notin hist.snapped) =>
          IF DragSource \in boardObjects
          THEN IsRotated(pos[DragSource], hist.g0.coords[DragSource], RotationCenterAtEntry.v,
                         hist.g0.coords[DragSource], hist.pos0[DragSource])
          ELSE pos[DragSource] = hist.pos0[DragSource]
    /\ (ScalingApplied /\ DragSource \notin hist.snapped) =>
          IF DragSource \in boardObjects
          THEN /\ IsScaled(pos[DragSource], hist.g0.coords[DragSource], ScaleCenterAtEntry.v,
                           DistSq(hist.g0.coords[DragSource], ScaleCenterAtEntry.v),
                           DistSq(hist.pos0[DragSource], ScaleCenterAtEntry.v),
                           hist.g0.scaleDirections[DragSource])
               /\ hist.g0.scaleDirections[DragSource] = "x" =>
                     pos[DragSource][2] = hist.g0.coords[DragSource][2]
               /\ hist.g0.scaleDirections[DragSource] = "y" =>
                     pos[DragSource][1] = hist.g0.coords[DragSource][1]
          ELSE pos[DragSource] = hist.pos0[DragSource]
    /\ (Entered /\ Applied /\ hist.drag.action = "translation"
            /\ DragSource \notin hist.snapped) =>
          pos[DragSource] = hist.pos0[DragSource]

\* a scale point with direction 'x' was dragged off its cached y, and the
\* scaling put it back on it, away from where it was dragged to
C26_Witness ==
    /\ ScalingApplied /\ hist.out = "done"
    /\ DragSource \in boardObjects
    /\ DragSource \notin hist.snapped
    /\ hist.g0.scaleDirections[DragSource] = "x"
    /\ hist.pos0[DragSource][2] # hist.g0.coords[DragSource][2]
    /\ pos[DragSource] # hist.pos0[DragSource]
    /\ pos[DragSource] # hist.g0.coords[DragSource]

\* C27: in a rotation or scaling cycle the applier sets every member other
\* than the drag source to the transformation of its cached position as it
\* was when update() was called, not of its live position, which may be up to
\* Mat.eps away from the cached one.
C27_OperandIsSnapshot ==
    \A el \in (Range(g.objects) \cap boardObjects) \ (hist.snapped \cup {DragSource}) :
        /\ RotationApplied =>
              IsRotated(pos[el], hist.g0.coords[el], RotationCenterAtEntry.v,
                        hist.g0.coords[DragSource], hist.pos0[DragSource])
        /\ ScalingApplied =>
              IsScaled(pos[el], hist.g0.coords[el], ScaleCenterAtEntry.v,
                       DistSq(hist.g0.coords[DragSource], ScaleCenterAtEntry.v),
                       DistSq(hist.pos0[DragSource], ScaleCenterAtEntry.v),
                       hist.g0.scaleDirections[DragSource])

\* C28: after addPoint(p), p is a member, the cache entry of p is the live
\* position of p, and p is in translationPoints; the coordinates of all
\* points and the cache entries of all others are what they were, as are the
\* other members.
C28_AddPointPostState ==
    hist.op = "addPoint" =>
        LET p == hist.arg
        IN  /\ InSeq(g.objects, p)
            /\ p \in DOMAIN g.coords
            /\ g.coords[p] = pos[p]
            /\ InSeq(g.translationPoints, p)
            /\ pos = hist.pos0
            /\ DOMAIN g.coords = DOMAIN hist.g0.coords \cup {p}
            /\ \A q \in DOMAIN hist.g0.coords \ {p} : g.coords[q] = hist.g0.coords[q]
            /\ Range(g.objects) = Range(hist.g0.objects) \cup {p}

\* a point that was no member has been added to a group one of whose
\* members is away from its cached position
C28_Witness ==
    /\ hist.op = "addPoint"
    /\ ~InSeq(hist.g0.objects, hist.arg)
    /\ \E q \in Range(hist.g0.objects) : pos[q] # hist.g0.coords[q]
    /\ pos[hist.arg] # InitPos[hist.arg]

\* C29 as stated: every point in the list a group is created with is a
\* member of the new group, has a cache entry and is a translation point.
C29_InitialMembership ==
    hist.op = "create" =>
        \A p \in Range(hist.arg.objects) :
            /\ InSeq(g.objects, p)
            /\ p \in DOMAIN g.coords
            /\ InSeq(g.translationPoints, p)

\* C29, amended: every point in the list that does not have the attribute
\* fixed is a member of the new group, has a cache entry, which is its
\* position, and is a translation point; a listed point that has the
\* attribute is no member, has no cache entry, is no translation point and
\* does not have the group in its groups list.
C29_InitialMembershipOfFreePoints ==
    hist.op = "create" =>
        \A p \in Range(hist.arg.objects) :
            IF p \notin hist.arg.fixed
            THEN /\ InSeq(g.objects, p)
                 /\ p \in DOMAIN g.coords
                 /\ g.coords[p] = pos[p]
                 /\ InSeq(g.translationPoints, p)
                 /\ InSeq(groups[p], GroupId)
            ELSE /\ ~InSeq(g.objects, p)
                 /\ p \notin DOMAIN g.coords
                 /\ ~InSeq(g.translationPoints, p)
                 /\ ~InSeq(groups[p], GroupId)

\* a group has been created with a list that names a fixed point and a
\* point that is not fixed
C29_Witness ==
    /\ hist.op = "create"
    /\ Range(hist.arg.objects) \cap hist.arg.fixed # {}
    /\ Range(hist.arg.objects) \ hist.arg.fixed # {}
    /\ Range(g.objects) = Range(hist.arg.objects) \ hist.arg.fixed

\* C30: removePoint(p) takes p out of the members and changes nothing else:
\* the other members and their order, the role arrays, scaleDirections, both
\* centers, the cache, the flag and all coordinates are what they were, and
\* the groups list of a p that was a member still holds the id of the group;
\* and no update() assigns the coordinates of a point that is no member when
\* it is called.
C30_RemovePointFrame ==
    /\ hist.op = "removePoint" =>
          /\ ~InSeq(g.objects, hist.arg)
          /\ g.objects = SelectSeq(hist.g0.objects, LAMBDA el : el # hist.arg)
          /\ g.rotationPoints = hist.g0.rotationPoints
          /\ g.translationPoints = hist.g0.translationPoints
          /\ g.scalePoints = hist.g0.scalePoints
          /\ g.scaleDirections = hist.g0.scaleDirections
          /\ g.rotationCenter = hist.g0.rotationCenter
          /\ g.scaleCenter = hist.g0.scaleCenter
          /\ g.coords = hist.g0.coords
          /\ g.needsUpdate = hist.g0.needsUpdate
          /\ pos = hist.pos0
          /\ InSeq(hist.g0.objects, hist.arg) => InSeq(groups[hist.arg], GroupId)
    /\ hist.op = "update" =>
          \A p \in Points \ Range(hist.g0.objects) :
              /\ pos[p] = hist.pos0[p]
              /\ hist.times[p] = 0

\* a point that was removed from the group and still is in translationPoints
\* has been dragged, and a translation started by another member has run
\* without moving it
C30_Witness ==
    /\ Entered
    /\ hist.out = "done"
    /\ hist.drag.action = "translation"
    /\ hist.assigned # {}
    /\ \E p \in wasMember \ Range(hist.g0.objects) :
          /\ p \in boardObjects
          /\ InSeq(g.translationPoints, p)
          /\ InSeq(groups[p], GroupId)
          /\ pos[p] # hist.g0.coords[p]

\* C31: after ungroup() the group has no members, and every update() called
\* on a group without members, with the flag set or not and wherever the
\* points are, classifies as 'nothing', assigns no coordinates, does not call
\* board.updateElements and leaves the group without members.
C31_UngroupReleasesAll ==
    /\ hist.op = "ungroup" => g.objects = <<>>
    /\ (hist.op = "update" /\ hist.g0.objects = <<>>) =>
          /\ hist.drag.action = "nothing"
          /\ hist.drag.id = NoId
          /\ hist.out = (IF hist.g0.needsUpdate THEN "nothing" ELSE "guard")
          /\ stack = <<>>
          /\ pos = hist.pos0
          /\ hist.assigned = {}
          /\ hist.calls = 0
          /\ g = hist.g0

\* update() has been called with the flag set on a group that ungroup() has
\* emptied, while a released translation point was away from its cached
\* position
C31_Witness ==
    /\ Entered
    /\ hist.g0.objects = <<>>
    /\ \E p \in wasMember :
          /\ InSeq(groups[p], Hole)
          /\ InSeq(hist.g0.translationPoints, p)
          /\ DistSq(pos[p], hist.g0.coords[p]) > Eps * Eps

\* C32: after addGroup(h) every member of h is a member of the group, has a
\* cache entry there, which is its live position, is in the translationPoints
\* of the group and has the id of the group in its groups list; the members,
\* the cache and the role arrays of h are what they were, and the groups list
\* of each member of h still holds the id of h.
C32_AddGroupIsBulkAddPoint ==
    hist.op = "addGroup" =>
        /\ \A p \in Range(other.objects) :
              /\ InSeq(g.objects, p)
              /\ p \in DOMAIN g.coords
              /\ g.coords[p] = pos[p]
              /\ InSeq(g.translationPoints, p)
              /\ InSeq(groups[p], GroupId)
              /\ InSeq(groups[p], OtherId)
        /\ other = OtherGroup
        /\ Range(g.objects) = Range(hist.g0.objects) \cup Range(other.objects)
        /\ \A q \in DOMAIN hist.g0.coords \ Range(other.objects) :
              g.coords[q] = hist.g0.coords[q]
        /\ pos = hist.pos0

\* a group has taken in the members of another group, one of which was no
\* member before and one of which had been moved since the other group was
\* created
C32_Witness ==
    /\ hist.op = "addGroup"
    /\ \E p \in Range(other.objects) : ~InSeq(hist.g0.objects, p)
    /\ \E p \in Range(other.objects) : pos[p] # other.coords[p]
    /\ Len(other.objects) > 1

\* direction || 'xy', "none" being an omitted direction
GivenDirection(d) == IF d = "none" THEN "xy" ELSE d

\* the points a call of setScalePoints names: those of the array, or the
\* one point handed over instead of an array
NamedPoints(a) == IF a.arr THEN Range(a.items) ELSE {a.items[1]}

\* C33: after setScalePoints(list, direction) and after addScalePoint(p,
\* direction) every point the call names has the direction of the call as its
\* scaleDirections entry ('xy' when none was given) and the entries of the
\* other points are what they were; every point in scalePoints has an entry,
\* which is 'x', 'y' or 'xy'; and no scaling cycle reads an undefined
\* direction.
C33_ScaleDirectionsDefined ==
    /\ hist.op = "setScalePoints" =>
          /\ \A p \in NamedPoints(hist.arg[1]) :
                /\ InSeq(g.scalePoints, p)
                /\ p \in DOMAIN g.scaleDirections
                /\ g.scaleDirections[p] = GivenDirection(hist.arg[2])
          /\ \A q \in DOMAIN hist.g0.scaleDirections \ NamedPoints(hist.arg[1]) :
                g.scaleDirections[q] = hist.g0.scaleDirections[q]
    /\ hist.op = "addScalePoint" =>
          /\ InSeq(g.scalePoints, hist.arg[1])
          /\ hist.arg[1] \in DOMAIN g.scaleDirections
          /\ g.scaleDirections[hist.arg[1]] = GivenDirection(hist.arg[2])
          /\ \A q \in DOMAIN hist.g0.scaleDirections \ {hist.arg[1]} :
                g.scaleDirections[q] = hist.g0.scaleDirections[q]
    /\ \A p \in Range(g.scalePoints) \cap Points :
          /\ p \in DOMAIN g.scaleDirections
          /\ g.scaleDirections[p] \in {"x", "y", "xy"}
    /\ hist.op = "update" => hist.out # "throw"

\* a scaling has run whose drag source got its direction 'x' from a call made
\* after the group was set up, scalePoints holding two entries
C33_Witness ==
    /\ ScalingApplied /\ hist.out = "done"
    /\ Len(hist.g0.scalePoints) >= 2
    /\ hist.g0.scaleDirections[DragSource] = "x"
    /\ used.api = 1

\* the step writes the cache entry of p
CacheWritten(p) ==
    /\ p \in DOMAIN g'.coords
    /\ p \notin DOMAIN g.coords \/ g'.coords[p] # g.coords[p]

\* the step is a call of _updateCoordsCache from outside
RefreshCalled == hist'.op = "_updateCoordsCache" /\ used'.api = used.api + 1

\* what C34 says of one step
RefreshStep ==
    /\ \A p \in Points : CacheWritten(p) =>
          /\ InSeq(g'.objects, p)
          /\ g'.coords[p] = pos'[p]
    /\ DOMAIN g.coords \subseteq DOMAIN g'.coords
    /\ RefreshCalled =>
          /\ \A q \in DOMAIN g'.coords \ {hist'.arg} :
                q \in DOMAIN g.coords /\ g'.coords[q] = g.coords[q]
          /\ (hist'.arg = NoId \/ ~InSeq(g.objects, hist'.arg)) => g'.coords = g.coords
          /\ [g' EXCEPT !.coords = g.coords] = g
          /\ pos' = pos
          /\ groups' = groups

\* C34: a cache entry is written only for a point that is a member when it
\* is written, and with the live coordinates of that point; no entry is ever
\* deleted; and a call of _updateCoordsCache changes nothing but the entry of
\* the id it is called with, and nothing at all when the id is empty or that
\* of no member.
C34_RefreshMemberOnly == [][RefreshStep]_vars

\* _updateCoordsCache has been called with the id of a point that is no
\* member and lies away from the cache entry it still has
C34_Witness ==
    /\ hist.op = "_updateCoordsCache"
    /\ hist.arg # NoId
    /\ ~InSeq(g.objects, hist.arg)
    /\ hist.arg \in DOMAIN g.coords
    /\ pos[hist.arg] # g.coords[hist.arg]
    /\ g.objects # <<>>

\* how far the update() that is in progress has got
Pc == stack[1].pc

\* what C35 says of a state
SchedulerState ==
    hist.op = "update" =>
        /\ hist.out \in {"guard", "nothing", "nocenter", "degenerate", "throw"} =>
              hist.calls = 0 /\ stack = <<>>
        /\ hist.out = "running" =>
              /\ Len(stack) = 1
              /\ Pc \in {"apply", "clear", "updateElements"} => hist.calls = 0
              /\ Pc = "refresh" => hist.calls = 1
              /\ g.coords = hist.g0.coords
        /\ hist.out = "done" => hist.calls = 1 /\ stack = <<>>

\* C35: an update() that applies a transformation calls board.updateElements
\* exactly once, after its applier has assigned the members' coordinates
\* (which assigns none afterwards) and before the cache is refreshed; an
\* update() that returns at the guard, with action 'nothing' or without a
\* transformation does not call it.
C35_SchedulerInvocation ==
    [][/\ SchedulerState'
       /\ (stack # <<>> /\ hist.calls >= 1) =>
             hist'.times = hist.times /\ hist'.assigned = hist.assigned
       /\ hist'.calls > hist.calls =>
             /\ hist'.calls = 1
             /\ Pc = "updateElements"
             /\ g'.coords = hist.g0.coords]_vars

\* a rotation has moved two members, board.updateElements has been called
\* and the cache is not refreshed yet
C35_Witness ==
    /\ Entered
    /\ hist.out = "running"
    /\ Pc = "refresh"
    /\ hist.calls = 1
    /\ hist.drag.action = "rotation"
    /\ Cardinality(hist.assigned) >= 2
    /\ \E el \in hist.assigned : pos[el] # g.coords[el]

\* C36: whenever the group has no members, the center 'centroid' resolves to
\* (0, 0).
C36_EmptyCentroid ==
    g.objects = <<>> =>
        /\ _update_centroid_center(g) = <<0, 0>>
        /\ ResolveCenter(g, pos, CenterCentroid) = [ok |-> TRUE, v |-> <<0, 0>>]

\* s is an initial part of t
IsPrefix(s, t) == Len(s) <= Len(t) /\ \A i \in 1..Len(s) : s[i] = t[i]

\* C37: timedChunk calls process once per element of the array it was
\* handed, in index order and for nothing else (also for the empty array,
\* and whatever the caller does to its array afterwards), and it calls
\* callback exactly once, with the items, after the last element has been
\* processed.
C37_EveryItemOnceInOrder ==
    chunk.started =>
        /\ IsPrefix(chunk.processed, chunk.given)
        /\ chunk.timer => chunk.callbacks = <<>>
        /\ ~chunk.timer => chunk.processed = chunk.given /\ chunk.callbacks = <<chunk.items>>

\* the handlers in owner's internal listener list for a type, in the order of
\* the list; an owner without the list has no listeners of the type
Listeners(lists, type) ==
    IF type \in DOMAIN lists
    THEN [i \in 1..Len(lists[type]) |-> lists[type][i].origin]
    ELSE <<>>

\* removeEvent directly after addEvent, with the same type, fn and owner
RoundTripStep ==
    /\ registry.call.op = "addEvent"
    /\ registry'.call.op = "removeEvent"
    /\ registry'.call.type = registry.call.type
    /\ registry'.call.fn = registry.call.fn
    /\ registry'.call.owner

\* the last call was a removeEvent that found no owner, no list or no
\* wrapper of fn in the list
NothingToRemove ==
    /\ registry.call.op = "removeEvent"
    /\ \/ ~registry.call.owner
       \/ registry.call.type \notin DOMAIN registry.call.before
       \/ IndexOfOrigin(registry.call.before[registry.call.type], registry.call.fn) = 0

\* C38: after addEvent(obj, type, fn, owner) followed by removeEvent(obj,
\* type, fn, owner) the owner's listener list for type is as it was before
\* the addEvent; a removeEvent that finds no owner, no list for the type or
\* no registration of fn leaves every list unchanged; and after
\* removeAllEvents(obj, type, owner) the owner's list for type is empty.
C38_ListenerRoundTrip ==
    /\ [][RoundTripStep =>
            Listeners(registry'.lists, registry.call.type)
                = Listeners(registry.call.before, registry.call.type)]_vars
    /\ [](NothingToRemove => registry.lists = registry.call.before)
    /\ [](registry.call.op = "removeAllEvents" =>
            Listeners(registry.lists, registry.call.type) = <<>>)

\* C39: the corners createAxes works with are, without D3 data of the view,
\* rear = parents[1] and front = parents[2], component by component, and with
\* D3 data rear[i] = bbox3d[i][0] and front[i] = bbox3d[i][1].
C39_CornersComponentwise ==
    axes.made =>
        IF axes.view.D3.exists
        THEN \A i \in 1..3 : /\ axes.rear[i] = axes.view.D3.bbox3d[i][1]
                             /\ axes.front[i] = axes.view.D3.bbox3d[i][2]
        ELSE \A i \in 1..3 : /\ axes.rear[i] = axes.parents[2][i]
                             /\ axes.front[i] = axes.parents[3][i]

\* C40: for centered and for bordered axes, the two axes handed to the
\* intersection that makes the origin O were created earlier in the same
\* call: neither is undefined.
C40_OriginAxesDefined ==
    axes.made =>
        \A i \in 1..2 :
            /\ axes.axes["O"].parents[i] # UndefinedEl
            /\ \E na \in DOMAIN axes.axes : na # "O" /\ axes.axes[na] = axes.axes["O"].parents[i]

====
